---- MODULE Spec2Model ----
(***************************************************************************)
(* Model of the two board games embedded in src/app/page.tsx (component    *)
(* MyChatbot): the 3-mark tic-tac-toe and the 6x6 Othello.                 *)
(*                                                                         *)
(* Marks: the source writes the Player's mark as the circle character and  *)
(* the Opponent's mark as the cross character; the model writes them "O"   *)
(* and "X".  An empty tic-tac-toe cell (null in the source) is Null, an    *)
(* empty Othello cell is the empty string, as in the source.               *)
(***************************************************************************)
EXTENDS Integers, Sequences, FiniteSets, TLC

VARIABLES
    tictactoe,    \* the TicTacToeState held by useState
    showGame,     \* tic-tac-toe panel visible
    othello,      \* the OthelloState held by useState
    showOthello,  \* Othello panel visible
    aiTimer,      \* pending setTimeout of the tic-tac-toe AI effect: <<>> or <<captured board>>
    othelloTimer, \* pending setTimeout of the Othello AI effect: <<>> or <<captured board>>
    clicks,       \* history: Black's moves applied since the last initOthelloBoard
    playerOrder,  \* history: cells of the live "O" marks, oldest first
    aiOrder,      \* history: cells of the live "X" marks, oldest first
    last,         \* history: the last handler that updated state, the cell it was given
                  \*          and the cell whose mark it removed (-1: none)
    call,         \* pure-function harness: the pending call and its arguments
    result        \* pure-function harness: what the call returned

vars == <<tictactoe, showGame, othello, showOthello, aiTimer, othelloTimer, clicks,
          playerOrder, aiOrder, last, call, result>>

Null == "null"
Cells == 0..8

MinOf(S) == CHOOSE x \in S : \A y \in S : x <= y
MaxInt(a, b) == IF a >= b THEN a ELSE b
MinInt(a, b) == IF a <= b THEN a ELSE b

(***************************************************************************)
(* checkWinner                                                             *)
(***************************************************************************)
lines == << <<0, 1, 2>>, <<3, 4, 5>>, <<6, 7, 8>>,
            <<0, 3, 6>>, <<1, 4, 7>>, <<2, 5, 8>>,
            <<0, 4, 8>>, <<2, 4, 6>> >>

\* board[a] && board[a] === board[b] && board[a] === board[c]
lineWon(b, p, q, r) == b[p] # Null /\ b[p] = b[q] /\ b[p] = b[r]

\* a checkWinner that forgets the last line (the anti-diagonal)
checkWinner_m(b) ==
    IF lineWon(b, 0, 1, 2) THEN b[0]
    ELSE IF lineWon(b, 3, 4, 5) THEN b[3]
    ELSE IF lineWon(b, 6, 7, 8) THEN b[6]
    ELSE IF lineWon(b, 0, 3, 6) THEN b[0]
    ELSE IF lineWon(b, 1, 4, 7) THEN b[1]
    ELSE IF lineWon(b, 2, 5, 8) THEN b[2]
    ELSE IF lineWon(b, 0, 4, 8) THEN b[0]
    ELSE Null

\* the loop over lines returns at the first line that is won
checkWinner(b) ==
    IF lineWon(b, 0, 1, 2) THEN b[0]
    ELSE IF lineWon(b, 3, 4, 5) THEN b[3]
    ELSE IF lineWon(b, 6, 7, 8) THEN b[6]
    ELSE IF lineWon(b, 0, 3, 6) THEN b[0]
    ELSE IF lineWon(b, 1, 4, 7) THEN b[1]
    ELSE IF lineWon(b, 2, 5, 8) THEN b[2]
    ELSE IF lineWon(b, 0, 4, 8) THEN b[0]
    ELSE IF lineWon(b, 2, 4, 6) THEN b[2]
    ELSE Null

\* Array.prototype.findIndex(cell => cell === mark): lowest index, or -1
findIndex(b, mark) ==
    IF \E i \in Cells : b[i] = mark
    THEN MinOf({i \in Cells : b[i] = mark})
    ELSE -1

includes(b, mark) == \E i \in Cells : b[i] = mark

(***************************************************************************)
(* findBestMove: evaluateBoard, minimax                                    *)
(***************************************************************************)
maxDepth == 5
reducedDepth == 4
\* stand-ins for JavaScript's Infinity and -Infinity: every score the
\* evaluator returns lies strictly between them
Infinity == 100000
NegInfinity == -100000

\* the contribution of one line, from the marks x, y, z on its three cells
lineValue(x, y, z) ==
    LET aiCount == (IF x = "X" THEN 1 ELSE 0) + (IF y = "X" THEN 1 ELSE 0)
                   + (IF z = "X" THEN 1 ELSE 0)
        playerCount == (IF x = "O" THEN 1 ELSE 0) + (IF y = "O" THEN 1 ELSE 0)
                       + (IF z = "O" THEN 1 ELSE 0)
        emptyCount == 3 - aiCount - playerCount
    IN (IF aiCount = 2 /\ emptyCount = 1 THEN 5
        ELSE IF aiCount = 1 /\ emptyCount = 2 THEN 1
        ELSE 0)
       + (IF playerCount = 2 /\ emptyCount = 1 THEN -5 ELSE 0)

\* lineValue tabulated over the 27 contents of a line
lineValueTable ==
    [x \in {Null, "O", "X"} |-> [y \in {Null, "O", "X"} |-> [z \in {Null, "O", "X"} |->
        lineValue(x, y, z)]]]

lineScore(b, p, q, r) == lineValueTable[b[p]][b[q]][b[r]]

sumLineScores(b) ==
    lineScore(b, 0, 1, 2) + lineScore(b, 3, 4, 5) + lineScore(b, 6, 7, 8)
    + lineScore(b, 0, 3, 6) + lineScore(b, 1, 4, 7) + lineScore(b, 2, 5, 8)
    + lineScore(b, 0, 4, 8) + lineScore(b, 2, 4, 6)

cornerScore(b, corner) ==
    IF b[corner] = "X" THEN 2 ELSE IF b[corner] = "O" THEN -2 ELSE 0

sumCorners(b) ==
    cornerScore(b, 0) + cornerScore(b, 2) + cornerScore(b, 6) + cornerScore(b, 8)

evaluateBoard(b, depth) ==
    LET w == checkWinner(b)
    IN IF w = "X" THEN 100 - depth
       ELSE IF w = "O" THEN depth - 100
       ELSE (IF b[4] = "X" THEN 3 ELSE IF b[4] = "O" THEN -3 ELSE 0)
            + sumCorners(b) + sumLineScores(b)

\* the cells 0..8 in loop order, and the pairs <<i, j>> in the order the
\* nested loops "for i ... for j ..." visit them
cellSeq == <<0, 1, 2, 3, 4, 5, 6, 7, 8>>
pairSeq == [k \in 1..81 |-> <<(k - 1) \div 9, (k - 1) % 9>>]

\* the iterations of "for (i) if (!board[i])" that reach the loop body
emptyCellSeq(b) == SelectSeq(cellSeq, LAMBDA i : b[i] = Null)

\* the iterations of "for (i) if (board[i] === mark) for (j) if (!board[j])"
\* that reach the loop body: <<i, j>> = <<from, to>>
relocationSeq(b, mark) == SelectSeq(pairSeq, LAMBDA p : b[p[1]] = mark /\ b[p[2]] = Null)

\* where the outer loop resumes after a break of the inner loop at position k:
\* the next iteration with another i
afterBreak(cands, k) ==
    LET later == {n \in (k + 1)..Len(cands) : cands[n][1] # cands[k][1]}
    IN IF later = {} THEN Len(cands) + 1 ELSE MinOf(later)

\* minimax returns <<score, move>>.  The four loops of the source are the
\* four *Loop operators, run over the iterations that reach the loop body;
\* each carries the loop's running bestScore, bestMove and alpha (or beta)
\* and stops where the source breaks.
RECURSIVE minimax(_, _, _, _, _, _, _)
RECURSIVE maxPlaceLoop(_, _, _, _, _, _, _, _, _, _)
RECURSIVE maxMoveLoop(_, _, _, _, _, _, _, _, _, _)
RECURSIVE minPlaceLoop(_, _, _, _, _, _, _, _, _, _)
RECURSIVE minMoveLoop(_, _, _, _, _, _, _, _, _, _)

\* a placement loop in which a later move of equal score replaces the best
maxPlaceLoop_m(b, depth, cands, k, alpha, beta, am, pm, bestScore, bestMove) ==
    IF k > Len(cands) \/ am >= 3 THEN <<bestScore, bestMove, alpha>>
    ELSE LET i == cands[k]
             score == minimax([b EXCEPT ![i] = "X"], depth - 1, FALSE,
                              alpha, beta, am + 1, pm)[1]
             bs == IF score >= bestScore THEN score ELSE bestScore
             bm == IF score >= bestScore THEN i ELSE bestMove
             a2 == MaxInt(alpha, bs)
         IN IF beta <= a2 THEN <<bs, bm, a2>>
            ELSE maxPlaceLoop(b, depth, cands, k + 1, a2, beta, am, pm, bs, bm)

\* for (i = 0..8) if (!board[i]) if (aiMarks < 3) { place; recurse; break on cutoff }
maxPlaceLoop(b, depth, cands, k, alpha, beta, am, pm, bestScore, bestMove) ==
    IF k > Len(cands) \/ am >= 3 THEN <<bestScore, bestMove, alpha>>
    ELSE LET i == cands[k]
             score == minimax([b EXCEPT ![i] = "X"], depth - 1, FALSE,
                              alpha, beta, am + 1, pm)[1]
             bs == IF score > bestScore THEN score ELSE bestScore
             bm == IF score > bestScore THEN i ELSE bestMove
             a2 == MaxInt(alpha, bs)
         IN IF beta <= a2 THEN <<bs, bm, a2>>
            ELSE maxPlaceLoop(b, depth, cands, k + 1, a2, beta, am, pm, bs, bm)

\* for (i: own marks) for (j: empty cells) { move i -> j; recurse; break inner loop on cutoff }
maxMoveLoop(b, depth, cands, k, alpha, beta, am, pm, bestScore, bestMove) ==
    IF k > Len(cands) THEN <<bestScore, bestMove, alpha>>
    ELSE LET i == cands[k][1]
             j == cands[k][2]
             score == minimax([b EXCEPT ![i] = Null, ![j] = "X"], depth - 1, FALSE,
                              alpha, beta, am, pm)[1]
             bs == IF score > bestScore THEN score ELSE bestScore
             bm == IF score > bestScore THEN j * 10 + i ELSE bestMove
             a2 == MaxInt(alpha, bs)
         IN IF beta <= a2
            THEN maxMoveLoop(b, depth, cands, afterBreak(cands, k), a2, beta, am, pm, bs, bm)
            ELSE maxMoveLoop(b, depth, cands, k + 1, a2, beta, am, pm, bs, bm)

minPlaceLoop(b, depth, cands, k, alpha, beta, am, pm, bestScore, bestMove) ==
    IF k > Len(cands) \/ pm >= 3 THEN <<bestScore, bestMove, beta>>
    ELSE LET i == cands[k]
             score == minimax([b EXCEPT ![i] = "O"], depth - 1, TRUE,
                              alpha, beta, am, pm + 1)[1]
             bs == IF score < bestScore THEN score ELSE bestScore
             bm == IF score < bestScore THEN i ELSE bestMove
             b2 == MinInt(beta, bs)
         IN IF b2 <= alpha THEN <<bs, bm, b2>>
            ELSE minPlaceLoop(b, depth, cands, k + 1, alpha, b2, am, pm, bs, bm)

minMoveLoop(b, depth, cands, k, alpha, beta, am, pm, bestScore, bestMove) ==
    IF k > Len(cands) THEN <<bestScore, bestMove, beta>>
    ELSE LET i == cands[k][1]
             j == cands[k][2]
             score == minimax([b EXCEPT ![i] = Null, ![j] = "O"], depth - 1, TRUE,
                              alpha, beta, am, pm)[1]
             bs == IF score < bestScore THEN score ELSE bestScore
             bm == IF score < bestScore THEN j ELSE bestMove
             b2 == MinInt(beta, bs)
         IN IF b2 <= alpha
            THEN minMoveLoop(b, depth, cands, afterBreak(cands, k), alpha, b2, am, pm, bs, bm)
            ELSE minMoveLoop(b, depth, cands, k + 1, alpha, b2, am, pm, bs, bm)

minimax(b, depth, isMaximizing, alpha, beta, am, pm) ==
    IF depth = 0 \/ checkWinner(b) # Null
    THEN <<evaluateBoard(b, depth), -1>>
    ELSE IF isMaximizing
    THEN LET r1 == maxPlaceLoop(b, depth, emptyCellSeq(b), 1, alpha, beta, am, pm,
                                NegInfinity, -1)
             r2 == IF am >= 3
                   THEN maxMoveLoop(b, depth, relocationSeq(b, "X"), 1, r1[3], beta,
                                    am, pm, r1[1], r1[2])
                   ELSE r1
         IN <<r2[1], r2[2]>>
    ELSE LET r1 == minPlaceLoop(b, depth, emptyCellSeq(b), 1, alpha, beta, am, pm,
                                Infinity, -1)
             r2 == IF pm >= 3
                   THEN minMoveLoop(b, depth, relocationSeq(b, "O"), 1, alpha, r1[3],
                                    am, pm, r1[1], r1[2])
                   ELSE r1
         IN <<r2[1], r2[2]>>

\* a start depth that is reduced one mark early
useDepth_m(aiMarksCount) == IF aiMarksCount < 2 THEN maxDepth ELSE reducedDepth

\* const useDepth = aiMarksCount < 3 ? maxDepth : 4
useDepth(aiMarksCount) == IF aiMarksCount < 3 THEN maxDepth ELSE reducedDepth

\* for (i = 0..8) if (!board[i]) { test = board with mark at i; if line of mark: that i }
completingCells(b, mark) ==
    {i \in Cells : b[i] = Null /\ checkWinner([b EXCEPT ![i] = mark]) = mark}

emptyIndexes(b) == {i \in Cells : b[i] = Null}

\* findBestMove returns a cell and, when the search answers with a relocation
\* code (>= 10), also clears the source cell of the board it was given.  The
\* model returns the set of possible <<board, cell>> outcomes; the set has
\* more than one element only where the source draws a random number.
findBestMove(b, aiMarksCount, playerMarksCount) ==
    LET bestMove == minimax(b, useDepth(aiMarksCount), TRUE, NegInfinity, Infinity,
                            aiMarksCount, playerMarksCount)[2]
        wins == completingCells(b, "X")
        blocks == completingCells(b, "O")
        emptyCorners == {c \in {0, 2, 6, 8} : b[c] = Null}
    IN IF bestMove >= 10
       THEN {<<[b EXCEPT ![bestMove % 10] = Null], bestMove \div 10>>}
       ELSE IF wins # {} THEN {<<b, MinOf(wins)>>}
       ELSE IF blocks # {} THEN {<<b, MinOf(blocks)>>}
       ELSE IF bestMove = -1
       THEN IF b[4] = Null THEN {<<b, 4>>}
            ELSE IF emptyCorners # {} THEN {<<b, c>> : c \in emptyCorners}
            ELSE IF emptyIndexes(b) # {} THEN {<<b, c>> : c \in emptyIndexes(b)}
            ELSE {<<b, -1>>}
       ELSE {<<b, bestMove>>}

(***************************************************************************)
(* State after construction (the useState initial values)                  *)
(***************************************************************************)
emptyBoard == [i \in Cells |-> Null]

initialTictactoe ==
    [board |-> emptyBoard, isPlayerTurn |-> TRUE, gameOver |-> FALSE,
     winner |-> Null, playerMarks |-> 0, aiMarks |-> 0]

Size == 0..5
emptyOthelloBoard == [r \in Size |-> [c \in Size |-> ""]]

initialOthello ==
    [board |-> emptyOthelloBoard, currentPlayer |-> "black", gameOver |-> FALSE,
     blackCount |-> 0, whiteCount |-> 0, skipTurn |-> FALSE]

\* a tally that counts the black discs for either colour
countDiscs_m(b, colour) == Cardinality({<<r, c>> \in Size \X Size : b[r][c] = "black"})

countDiscs(b, colour) == Cardinality({<<r, c>> \in Size \X Size : b[r][c] = colour})

\* the state initOthelloBoard sets
initOthelloBoard ==
    LET mid == (6 \div 2) - 1
        newBoard == [emptyOthelloBoard EXCEPT ![mid][mid] = "white",
                                              ![mid][mid + 1] = "black",
                                              ![mid + 1][mid] = "black",
                                              ![mid + 1][mid + 1] = "white"]
    IN [board |-> newBoard, currentPlayer |-> "black", gameOver |-> FALSE,
        blackCount |-> countDiscs(newBoard, "black"),
        whiteCount |-> countDiscs(newBoard, "white"), skipTurn |-> FALSE]

(***************************************************************************)
(* Othello: findLegalMoves, getFlippedDiscs                                *)
(***************************************************************************)
\* the 8 directions, in the order of the source's array
directions == << <<-1, -1>>, <<-1, 0>>, <<-1, 1>>,
                 <<0, -1>>,             <<0, 1>>,
                 <<1, -1>>,  <<1, 0>>,  <<1, 1>> >>

\* the 36 cells <<row, col>> in the order of "for row ... for col ..."
inSeq(x, s) == \E k \in 1..Len(s) : s[k] = x

squareSeq == [k \in 1..36 |-> <<(k - 1) \div 6, (k - 1) % 6>>]

opponentOf(player) == IF player = "black" THEN "white" ELSE "black"

onBoard(r, c) == r >= 0 /\ r < 6 /\ c >= 0 /\ c < 6

\* while (on the board && board[r][c] === opponent) { push; r += dx; c += dy }:
\* the cells the loop passes, starting at <<r, c>>
RECURSIVE opponentRun(_, _, _, _, _, _)
opponentRun(b, r, c, dx, dy, opponent) ==
    IF onBoard(r, c) /\ b[r][c] = opponent
    THEN <<<<r, c>>>> \o opponentRun(b, r + dx, c + dy, dx, dy, opponent)
    ELSE <<>>

\* a run that is taken whether or not a disc of player stands behind it
bracketedRun_open(b, row, col, d, player) ==
    opponentRun(b, row + d[1], col + d[2], d[1], d[2], opponentOf(player))

\* the run of opponent discs from <<row, col>> in direction d when a disc of
\* player stands right behind it, else nothing
bracketedRun(b, row, col, d, player) ==
    LET run == opponentRun(b, row + d[1], col + d[2], d[1], d[2], opponentOf(player))
        r == row + d[1] * (Len(run) + 1)
        c == col + d[2] * (Len(run) + 1)
    IN IF Len(run) > 0 /\ onBoard(r, c) /\ b[r][c] = player THEN run ELSE <<>>

\* a run that needs no opponent disc: the neighbour itself may be the bracket
bracketedRun_m(b, row, col, d, player) ==
    LET run == opponentRun(b, row + d[1], col + d[2], d[1], d[2], opponentOf(player))
        r == row + d[1] * (Len(run) + 1)
        c == col + d[2] * (Len(run) + 1)
    IN IF onBoard(r, c) /\ b[r][c] = player THEN <<<<row, col>>>> \o run ELSE <<>>

\* findLegalMoves with the foundOpponent test left out
findLegalMoves_m(b, player) ==
    SelectSeq(squareSeq,
              LAMBDA sq : /\ b[sq[1]][sq[2]] = ""
                          /\ \E k \in 1..Len(directions) :
                                bracketedRun_m(b, sq[1], sq[2], directions[k], player) # <<>>)

\* the empty cells from which some direction holds a bracketed run, in
\* row-major order
findLegalMoves(b, player) ==
    SelectSeq(squareSeq,
              LAMBDA sq : /\ b[sq[1]][sq[2]] = ""
                          /\ \E k \in 1..Len(directions) :
                                bracketedRun(b, sq[1], sq[2], directions[k], player) # <<>>)

\* the bracketed runs of the 8 directions, concatenated in direction order
RECURSIVE flippedFrom(_, _, _, _, _)
flippedFrom(b, row, col, player, k) ==
    IF k > Len(directions) THEN <<>>
    ELSE bracketedRun(b, row, col, directions[k], player)
         \o flippedFrom(b, row, col, player, k + 1)

getFlippedDiscs(b, row, col, player) == flippedFrom(b, row, col, player, 1)

noCall == [fn |-> "none"]

Init ==
    /\ tictactoe = initialTictactoe
    /\ showGame = FALSE
    /\ othello = initialOthello
    /\ showOthello = FALSE
    /\ aiTimer = <<>>
    /\ othelloTimer = <<>>
    /\ clicks = 0
    /\ playerOrder = <<>>
    /\ aiOrder = <<>>
    /\ last = [op |-> "init", index |-> -1, removed |-> -1]
    /\ call = noCall
    /\ result = noCall

(***************************************************************************)
(* The tic-tac-toe AI effect (useEffect with the dependencies showGame,    *)
(* isPlayerTurn, gameOver, board).  Every state update of the handlers     *)
(* below installs a fresh board array or changes showGame, so after each   *)
(* of them the previous timer is cleared and the condition is tested anew. *)
(***************************************************************************)
aiTurnEffect_m(show, t) ==
    IF ~t.isPlayerTurn /\ ~t.gameOver THEN <<t.board>> ELSE <<>>

aiTurnEffect(show, t) ==
    IF show /\ ~t.isPlayerTurn /\ ~t.gameOver THEN <<t.board>> ELSE <<>>

\* an effect that never arms the timer
othelloTurnEffect_m(show, o) == <<>>

\* The Othello AI effect (useEffect with the dependencies showOthello,
\* currentPlayer, gameOver, board): the same scheme, for White's turn.
othelloTurnEffect(show, o) ==
    IF show /\ o.currentPlayer = "white" /\ ~o.gameOver THEN <<o.board>> ELSE <<>>

(***************************************************************************)
(* resetGame, toggleGame, toggleOthello                                    *)
(***************************************************************************)
firstMoves_m == {0, 1, 2, 4, 6, 8}

firstMoves == {0, 2, 4, 6, 8}

resetGame(firstMove) ==
    [board |-> [emptyBoard EXCEPT ![firstMove] = "X"],
     isPlayerTurn |-> TRUE, gameOver |-> FALSE, winner |-> Null,
     playerMarks |-> 0, aiMarks |-> 1]

toggleGame_m ==
    /\ IF ~showGame
       THEN \E firstMove \in firstMoves :
               /\ showGame' = TRUE
               /\ tictactoe' = resetGame(firstMove)
               /\ playerOrder' = <<>>
               /\ aiOrder' = <<firstMove>>
               /\ UNCHANGED showOthello
       ELSE /\ showGame' = FALSE
            /\ UNCHANGED <<showOthello, tictactoe, playerOrder, aiOrder>>
    /\ aiTimer' = aiTurnEffect(showGame', tictactoe')
    /\ othelloTimer' = othelloTurnEffect(showOthello', othello)
    /\ last' = [op |-> "toggleGame", index |-> -1, removed |-> -1]
    /\ UNCHANGED <<othello, clicks>>

toggleGame ==
    /\ IF ~showGame
       THEN \E firstMove \in firstMoves :
               /\ showGame' = TRUE
               /\ showOthello' = FALSE
               /\ tictactoe' = resetGame(firstMove)
               /\ playerOrder' = <<>>
               /\ aiOrder' = <<firstMove>>
       ELSE /\ showGame' = FALSE
            /\ UNCHANGED <<showOthello, tictactoe, playerOrder, aiOrder>>
    /\ aiTimer' = aiTurnEffect(showGame', tictactoe')
    /\ othelloTimer' = othelloTurnEffect(showOthello', othello)
    /\ last' = [op |-> "toggleGame", index |-> -1, removed |-> -1]
    /\ UNCHANGED <<othello, clicks>>

\* the game button: toggleGame, the chat panel untouched
ToggleGame ==
    /\ toggleGame
    /\ UNCHANGED <<call, result>>

\* toggleOthello, with the initOthelloBoard it calls and the one the effect
\* on showOthello calls after it
toggleOthello ==
    /\ IF ~showOthello
       THEN /\ showOthello' = TRUE
            /\ showGame' = FALSE
            /\ othello' = initOthelloBoard
            /\ clicks' = 0
       ELSE /\ showOthello' = FALSE
            /\ UNCHANGED <<showGame, othello, clicks>>
    /\ aiTimer' = aiTurnEffect(showGame', tictactoe)
    /\ othelloTimer' = othelloTurnEffect(showOthello', othello')
    /\ last' = [op |-> "toggleOthello", index |-> -1, removed |-> -1]
    /\ UNCHANGED <<tictactoe, playerOrder, aiOrder>>

\* a toggleOthello that shows the board without initialising it
ToggleOthello_m ==
    /\ showOthello' = ~showOthello
    /\ showGame' = (showGame /\ showOthello)
    /\ aiTimer' = aiTurnEffect(showGame', tictactoe)
    /\ othelloTimer' = othelloTurnEffect(showOthello', othello)
    /\ last' = [op |-> "toggleOthello", index |-> -1, removed |-> -1]
    /\ UNCHANGED <<tictactoe, othello, clicks, playerOrder, aiOrder, call, result>>

\* the Othello button: toggleOthello, the chat panel untouched
ToggleOthello ==
    /\ toggleOthello
    /\ UNCHANGED <<call, result>>

(***************************************************************************)
(* handleCellClick                                                         *)
(***************************************************************************)
\* prevState.marks < 3 ? prevState.marks + 1 : prevState.marks
nextMarks_m(n) == n + 1

nextMarks(n) == IF n < 3 THEN n + 1 ELSE n

\* board with cell idx cleared; idx = -1 (findIndex found nothing) clears no cell
without(b, idx) == IF idx \in Cells THEN [b EXCEPT ![idx] = Null] ELSE b

\* the first early return of handleCellClick, without its gameOver test
clickIgnored_m(t, index) == t.board[index] # Null \/ ~t.isPlayerTurn

\* the same, without its test of the clicked cell
clickIgnored_occ(t, index) == ~t.isPlayerTurn \/ t.gameOver

\* the first early return of handleCellClick
clickIgnored(t, index) ==
    t.board[index] # Null \/ ~t.isPlayerTurn \/ t.gameOver

\* the board handleCellClick builds: at the cap the first "O" found is removed
playerNewBoard_m(t, index) == [t.board EXCEPT ![index] = "O"]

playerNewBoard(t, index) ==
    LET evicted == IF t.playerMarks >= 3 THEN without(t.board, findIndex(t.board, "O"))
                   ELSE t.board
    IN [evicted EXCEPT ![index] = "O"]

\* a handleCellClick without its winner check
handleCellClick_nocheck(t, index) ==
    IF clickIgnored(t, index) THEN <<t, FALSE>>
    ELSE IF t.playerMarks >= 3 /\ ~includes(t.board, "O") THEN <<t, FALSE>>
    ELSE <<[t EXCEPT !.board = playerNewBoard(t, index), !.isPlayerTurn = FALSE,
                     !.playerMarks = nextMarks(t.playerMarks)], TRUE>>

\* handleCellClick(index) run in the render whose state is t:
\* <<the state it leaves, whether it called setTictactoe>>
handleCellClick(t, index) ==
    IF clickIgnored(t, index) THEN <<t, FALSE>>
    ELSE IF t.playerMarks >= 3 /\ ~includes(t.board, "O") THEN <<t, FALSE>>
    ELSE IF t.playerMarks < 3 \/ includes(t.board, "O")
    THEN LET newBoard == playerNewBoard(t, index)
             w == checkWinner(newBoard)
         IN IF w # Null
            THEN <<[t EXCEPT !.board = newBoard, !.gameOver = TRUE, !.winner = w,
                             !.playerMarks = nextMarks(t.playerMarks)], TRUE>>
            ELSE <<[t EXCEPT !.board = newBoard, !.isPlayerTurn = FALSE,
                             !.playerMarks = nextMarks(t.playerMarks)], TRUE>>
    ELSE <<t, FALSE>>

\* history of placements: the cells that still hold mark, oldest first, then
\* the cell that newly holds it
placementOrder(order, old, new, mark) ==
    LET kept == SelectSeq(order, LAMBDA c : new[c] = mark)
        added == {c \in Cells : new[c] = mark /\ old[c] # mark}
    IN IF added = {} THEN kept ELSE kept \o <<MinOf(added)>>

\* history: the cell that held mark in old and no longer does in new (-1: none)
removedCell(old, new, mark) ==
    LET gone == {c \in Cells : old[c] = mark /\ new[c] # mark}
    IN IF gone = {} THEN -1 ELSE MinOf(gone)

\* a click on a rendered cell (the board is rendered only while showGame).
\* A click that returns early updates no state: nothing is rendered again,
\* the pending timer stays, and the history records nothing.
HandleCellClick(index) ==
    /\ showGame
    /\ LET r == handleCellClick(tictactoe, index)
       IN IF r[2]
          THEN /\ tictactoe' = r[1]
               /\ aiTimer' = aiTurnEffect(showGame, r[1])
               /\ playerOrder' = placementOrder(playerOrder, tictactoe.board, r[1].board, "O")
               /\ last' = [op |-> "handleCellClick", index |-> index,
                           removed |-> removedCell(tictactoe.board, r[1].board, "O")]
          ELSE UNCHANGED <<tictactoe, aiTimer, playerOrder, last>>
    /\ UNCHANGED <<showGame, othello, showOthello, othelloTimer, clicks, aiOrder, call, result>>

(***************************************************************************)
(* aiMove                                                                  *)
(***************************************************************************)
\* a win search that only tries to move the first "X" found
winningRelocations_m(b) ==
    {p \in Cells \X Cells :
        /\ b[p[1]] = Null
        /\ p[2] = findIndex(b, "X")
        /\ checkWinner([b EXCEPT ![p[2]] = Null, ![p[1]] = "X"]) = "X"}

\* for (i: empty) for (j: "X") if moving j to i wins: the pairs <<i, j>>
winningRelocations(b) ==
    {p \in Cells \X Cells :
        /\ b[p[1]] = Null
        /\ b[p[2]] = "X"
        /\ checkWinner([b EXCEPT ![p[2]] = Null, ![p[1]] = "X"]) = "X"}

\* the first pair the nested loops meet: lowest i, then lowest j
firstPair(S) ==
    CHOOSE p \in S : \A q \in S : p[1] < q[1] \/ (p[1] = q[1] /\ p[2] <= q[2])

\* a final part with a draw rule: without a line, the game is called off
\* once the Opponent has its 3 marks
aiFinish_m(t, newBoard) ==
    LET w == checkWinner(newBoard)
    IN IF w # Null \/ t.aiMarks >= 3
       THEN [t EXCEPT !.board = newBoard, !.isPlayerTurn = TRUE, !.gameOver = TRUE,
                      !.winner = w, !.aiMarks = nextMarks(t.aiMarks)]
       ELSE [t EXCEPT !.board = newBoard, !.isPlayerTurn = TRUE,
                      !.aiMarks = nextMarks(t.aiMarks)]

\* the final part of aiMove (the winner check and the two state updates)
aiFinish(t, newBoard) ==
    LET w == checkWinner(newBoard)
    IN IF w # Null
       THEN [t EXCEPT !.board = newBoard, !.isPlayerTurn = TRUE, !.gameOver = TRUE,
                      !.winner = w, !.aiMarks = nextMarks(t.aiMarks)]
       ELSE [t EXCEPT !.board = newBoard, !.isPlayerTurn = TRUE,
                      !.aiMarks = nextMarks(t.aiMarks)]

\* the relocation branch without its block of the Player's threat
aiRelocate_m(t, b) ==
    LET wins == winningRelocations(b)
        firstMarkIndex == findIndex(b, "X")
        empties == emptyIndexes(b)
    IN IF wins # {}
       THEN LET p == firstPair(wins)
            IN {[t EXCEPT !.board = [b EXCEPT ![p[2]] = Null, ![p[1]] = "X"],
                          !.isPlayerTurn = TRUE, !.gameOver = TRUE, !.winner = "X"]}
       ELSE IF 4 \in empties
       THEN {aiFinish(t, [without(b, firstMarkIndex) EXCEPT ![4] = "X"])}
       ELSE IF empties = {} THEN {aiFinish(t, without(b, firstMarkIndex))}
       ELSE {aiFinish(t, [without(b, firstMarkIndex) EXCEPT ![randomIndex] = "X"]) :
                randomIndex \in empties}

\* the branch of aiMove taken when aiMarks >= 3: the set of states it can leave
aiRelocate(t, b) ==
    LET wins == winningRelocations(b)
        threats == completingCells(b, "O")
        firstMarkIndex == findIndex(b, "X")
        empties == emptyIndexes(b)
    IN IF wins # {}
       THEN LET p == firstPair(wins)
            IN {[t EXCEPT !.board = [b EXCEPT ![p[2]] = Null, ![p[1]] = "X"],
                          !.isPlayerTurn = TRUE, !.gameOver = TRUE, !.winner = "X"]}
       ELSE IF threats # {} /\ firstMarkIndex # -1
       THEN {[t EXCEPT !.board = [without(b, firstMarkIndex) EXCEPT ![MinOf(threats)] = "X"],
                       !.isPlayerTurn = TRUE]}
       ELSE IF 4 \in empties
       THEN {aiFinish(t, [without(b, firstMarkIndex) EXCEPT ![4] = "X"])}
       ELSE IF empties = {} THEN {aiFinish(t, without(b, firstMarkIndex))}
       ELSE {aiFinish(t, [without(b, firstMarkIndex) EXCEPT ![randomIndex] = "X"]) :
                randomIndex \in empties}

\* the branch of aiMove taken when aiMarks < 3
aiPlace(t, b) ==
    {aiFinish(t, IF r[2] # -1 THEN [r[1] EXCEPT ![r[2]] = "X"] ELSE r[1]) :
        r \in findBestMove(b, t.aiMarks, t.playerMarks)}

\* aiMove(board) run in the render whose state is t: the states it can leave
aiMove(t, b) == IF t.aiMarks >= 3 THEN aiRelocate(t, b) ELSE aiPlace(t, b)

\* an aiMove that keeps the turn while the Opponent holds fewer than two marks
AiTimerFires_m ==
    /\ aiTimer # <<>>
    /\ \E t2 \in aiMove(tictactoe, aiTimer[1]) :
          /\ tictactoe' = [t2 EXCEPT !.isPlayerTurn = tictactoe.aiMarks >= 2]
          /\ aiTimer' = aiTurnEffect(showGame, tictactoe')
          /\ aiOrder' = placementOrder(aiOrder, tictactoe.board, t2.board, "X")
          /\ last' = [op |-> "aiMove", index |-> -1,
                      removed |-> removedCell(tictactoe.board, t2.board, "X")]
    /\ UNCHANGED <<showGame, othello, showOthello, othelloTimer, clicks, playerOrder, call, result>>

\* the timer armed by the AI effect fires
AiTimerFires ==
    /\ aiTimer # <<>>
    /\ \E t2 \in aiMove(tictactoe, aiTimer[1]) :
          /\ tictactoe' = t2
          /\ aiTimer' = aiTurnEffect(showGame, t2)
          /\ aiOrder' = placementOrder(aiOrder, tictactoe.board, t2.board, "X")
          /\ last' = [op |-> "aiMove", index |-> -1,
                      removed |-> removedCell(tictactoe.board, t2.board, "X")]
    /\ UNCHANGED <<showGame, othello, showOthello, othelloTimer, clicks, playerOrder, call, result>>

Next ==
    \/ ToggleGame
    \/ ToggleOthello
    \/ \E index \in Cells : HandleCellClick(index)
    \/ AiTimerFires

Spec == Init /\ [][Next]_vars

(***************************************************************************)
(* The tic-tac-toe game with its scheduling.  A timer armed by setTimeout  *)
(* fires unless the effect's cleanup clears it: the timer step is weakly   *)
(* fair; the human may click or not.  A click that is not accepted updates *)
(* no state, so only the accepted ones are steps here.                     *)
(***************************************************************************)
PlayerPlays ==
    \E index \in Cells : HandleCellClick(index) /\ tictactoe' # tictactoe

NextTicTacToeLive ==
    \/ ToggleGame
    \/ PlayerPlays
    \/ AiTimerFires

\* WF_vars(AiTimerFires) with its ENABLED written out: the timer step is
\* enabled exactly while a timer is armed, and every firing changes the state
aiTimerFairness ==
    []<>(aiTimer = <<>>) \/ []<><<AiTimerFires>>_vars

SpecTicTacToeTimer ==
    /\ Init
    /\ [][NextTicTacToeLive]_vars
    /\ aiTimerFairness

(***************************************************************************)
(* Othello: placeDisc                                                      *)
(***************************************************************************)
\* a placement that puts the disc down and turns nothing
placeAndFlip_noflip(b, row, col, player) == [b EXCEPT ![row][col] = player]

\* a placement that turns the bracketed discs but leaves the cell empty
placeAndFlip_m(b, row, col, player) ==
    LET flippedDiscs == getFlippedDiscs(b, row, col, player)
    IN [r \in Size |-> [c \in Size |->
          IF inSeq(<<r, c>>, flippedDiscs) THEN player ELSE b[r][c]]]

\* board[row][col] = player; for (const [r, c] of getFlippedDiscs(board, row,
\* col, player)) board[r][c] = player: the flips are computed on the board
\* that already holds the new disc
placeAndFlip(b, row, col, player) ==
    LET placed == [b EXCEPT ![row][col] = player]
        flippedDiscs == getFlippedDiscs(placed, row, col, player)
    IN [r \in Size |-> [c \in Size |->
          IF inSeq(<<r, c>>, flippedDiscs) THEN player ELSE placed[r][c]]]

\* Black's move always hands the turn to White while the game goes on
afterBlackMove_m(board) ==
    LET blackCount == countDiscs(board, "black")
        whiteCount == countDiscs(board, "white")
    IN IF findLegalMoves(board, "white") = <<>> /\ findLegalMoves(board, "black") = <<>>
       THEN [board |-> board, currentPlayer |-> "white", gameOver |-> TRUE,
             blackCount |-> blackCount, whiteCount |-> whiteCount, skipTurn |-> FALSE]
       ELSE [board |-> board, currentPlayer |-> "white", gameOver |-> FALSE,
             blackCount |-> blackCount, whiteCount |-> whiteCount, skipTurn |-> FALSE]

\* the end of placeDisc: the counts and the three setOthello calls
afterBlackMove(board) ==
    LET blackCount == countDiscs(board, "black")
        whiteCount == countDiscs(board, "white")
        canNextPlayerMove == Len(findLegalMoves(board, "white")) > 0
        currentPlayerCanMove == Len(findLegalMoves(board, "black")) > 0
    IN IF ~canNextPlayerMove
       THEN IF ~currentPlayerCanMove
            THEN [board |-> board, currentPlayer |-> "white", gameOver |-> TRUE,
                  blackCount |-> blackCount, whiteCount |-> whiteCount, skipTurn |-> FALSE]
            ELSE [board |-> board, currentPlayer |-> "black", gameOver |-> FALSE,
                  blackCount |-> blackCount, whiteCount |-> whiteCount, skipTurn |-> TRUE]
       ELSE [board |-> board, currentPlayer |-> "white", gameOver |-> FALSE,
             blackCount |-> blackCount, whiteCount |-> whiteCount, skipTurn |-> FALSE]

\* a placeDisc without its legality test
placeDisc_m(o, row, col) ==
    IF o.gameOver \/ o.board[row][col] # "" THEN <<o, FALSE>>
    ELSE <<afterBlackMove(placeAndFlip(o.board, row, col, "black")), TRUE>>

\* placeDisc(row, col) run in the render whose state is o:
\* <<the state it leaves, whether it called setOthello>>
placeDisc(o, row, col) ==
    IF o.gameOver \/ o.board[row][col] # "" THEN <<o, FALSE>>
    ELSE IF ~inSeq(<<row, col>>, findLegalMoves(o.board, "black")) THEN <<o, FALSE>>
    ELSE <<afterBlackMove(placeAndFlip(o.board, row, col, "black")), TRUE>>

\* a cell test that forgets whose turn it is
isLegalMove_m(o, row, col) ==
    /\ ~o.gameOver
    /\ o.board[row][col] = ""
    /\ inSeq(<<row, col>>, findLegalMoves(o.board, "black"))

\* renderOthelloCell: the test that decides whether a click calls placeDisc
isLegalMove(o, row, col) ==
    /\ ~o.gameOver
    /\ o.currentPlayer = "black"
    /\ o.board[row][col] = ""
    /\ inSeq(<<row, col>>, findLegalMoves(o.board, "black"))

(***************************************************************************)
(* Othello: makeAIMove                                                     *)
(***************************************************************************)
positionValue ==
    << <<120, -20, 20, 20, -20, 120>>,
       <<-20, -40, -5, -5, -40, -20>>,
       <<20, -5, 15, 15, -5, 20>>,
       <<20, -5, 15, 15, -5, 20>>,
       <<-20, -40, -5, -5, -40, -20>>,
       <<120, -20, 20, 20, -20, 120>> >>

endgameThreshold == 30
passBonus == 30

\* the part of score the double loop adds: + positionValue for the player's
\* discs, - positionValue for the opponent's
RECURSIVE positionScore(_, _, _)
positionScore(b, player, k) ==
    IF k > Len(squareSeq) THEN 0
    ELSE LET r == squareSeq[k][1]
             c == squareSeq[k][2]
             v == IF b[r][c] = player THEN positionValue[r + 1][c + 1]
                  ELSE IF b[r][c] = opponentOf(player) THEN -positionValue[r + 1][c + 1]
                  ELSE 0
         IN v + positionScore(b, player, k + 1)

\* an evaluator that enters the endgame phase one disc late
othelloEvaluateBoard_m(b, player) ==
    LET opponent == opponentOf(player)
        mine == countDiscs(b, player)
        theirs == countDiscs(b, opponent)
        countDiff == mine - theirs
        totalStones == mine + theirs
        score == positionScore(b, player, 1)
    IN IF totalStones > endgameThreshold
       THEN score + countDiff * 10
       ELSE LET myMoves == Len(findLegalMoves(b, player))
                opponentMoves == Len(findLegalMoves(b, opponent))
            IN score + (myMoves - opponentMoves) * 5 + countDiff * 2

\* makeAIMove.evaluateBoard
othelloEvaluateBoard(b, player) ==
    LET opponent == opponentOf(player)
        mine == countDiscs(b, player)
        theirs == countDiscs(b, opponent)
        countDiff == mine - theirs
        totalStones == mine + theirs
        score == positionScore(b, player, 1)
    IN IF totalStones >= endgameThreshold
       THEN score + countDiff * 10
       ELSE LET myMoves == Len(findLegalMoves(b, player))
                opponentMoves == Len(findLegalMoves(b, opponent))
            IN score + (myMoves - opponentMoves) * 5 + countDiff * 2

cornerCells == {<<0, 0>>, <<0, 5>>, <<5, 0>>, <<5, 5>>}

\* evaluateBoard(testBoard, 'white') for the board after White's move
simpleScore(b, move) ==
    othelloEvaluateBoard(placeAndFlip(b, move[1], move[2], "white"), "white")

\* playerBestScore = Math.min(playerBestScore, playerScore) over playerMoves
RECURSIVE playerBestScore(_, _, _, _)
\* a look-ahead that keeps Black's best reply for White instead of the worst
playerBestScore_m(testBoard, playerMoves, k, best) ==
    IF k > Len(playerMoves) THEN best
    ELSE LET playerBoard == placeAndFlip(testBoard, playerMoves[k][1], playerMoves[k][2], "black")
             playerScore == othelloEvaluateBoard(playerBoard, "white")
         IN playerBestScore(testBoard, playerMoves, k + 1,
                            IF best = Infinity THEN playerScore ELSE MaxInt(best, playerScore))

playerBestScore(testBoard, playerMoves, k, best) ==
    IF k > Len(playerMoves) THEN best
    ELSE LET playerBoard == placeAndFlip(testBoard, playerMoves[k][1], playerMoves[k][2], "black")
             playerScore == othelloEvaluateBoard(playerBoard, "white")
         IN playerBestScore(testBoard, playerMoves, k + 1, MinInt(best, playerScore))

\* the score the depth-2 loop compares with bestScore for one legal move
lookaheadScore(b, move) ==
    LET testBoard == placeAndFlip(b, move[1], move[2], "white")
        playerMoves == findLegalMoves(testBoard, "black")
    IN IF Len(playerMoves) = 0
       THEN othelloEvaluateBoard(testBoard, "white") + passBonus
       ELSE playerBestScore(testBoard, playerMoves, 1, Infinity)

\* for (const move of moves) if (score > bestScore) { bestScore = score; bestMove = move }
RECURSIVE pickBest(_, _, _, _, _)
pickBest(moves, scores, k, bestScore, bestMove) ==
    IF k > Len(moves) THEN <<bestScore, bestMove>>
    ELSE IF scores[k] > bestScore
    THEN pickBest(moves, scores, k + 1, scores[k], moves[k])
    ELSE pickBest(moves, scores, k + 1, bestScore, bestMove)

noMove == <<-1, -1>>

\* a choice that runs the look-ahead even when a corner is legal
chooseMoves_m(b) ==
    LET legalMoves == findLegalMoves(b, "white")
        first == pickBest(legalMoves,
                          [k \in 1..Len(legalMoves) |-> lookaheadScore(b, legalMoves[k])],
                          1, NegInfinity, noMove)
    IN {first[2]}

\* the part of makeAIMove that settles bestMove, for a board on which White
\* has a legal move: the set of its possible values (more than one only
\* where the source draws a random number)
chooseMoves(b) ==
    LET legalMoves == findLegalMoves(b, "white")
        cornerMoves == SelectSeq(legalMoves, LAMBDA m : m \in cornerCells)
    IN IF Len(cornerMoves) > 0
       THEN {pickBest(cornerMoves,
                      [k \in 1..Len(cornerMoves) |-> simpleScore(b, cornerMoves[k])],
                      1, NegInfinity, noMove)[2]}
       ELSE LET first == pickBest(legalMoves,
                                  [k \in 1..Len(legalMoves) |-> lookaheadScore(b, legalMoves[k])],
                                  1, NegInfinity, noMove)
                second == IF first[2][1] = -1
                          THEN pickBest(legalMoves,
                                        [k \in 1..Len(legalMoves) |-> simpleScore(b, legalMoves[k])],
                                        1, first[1], first[2])
                          ELSE first
            IN IF second[2][1] = -1
               THEN {legalMoves[k] : k \in 1..Len(legalMoves)}
               ELSE {second[2]}

\* White's move never ends the game
afterWhiteMove_m(board) ==
    LET blackCount == countDiscs(board, "black")
        whiteCount == countDiscs(board, "white")
    IN IF findLegalMoves(board, "black") = <<>>
       THEN [board |-> board, currentPlayer |-> "white", gameOver |-> FALSE,
             blackCount |-> blackCount, whiteCount |-> whiteCount, skipTurn |-> TRUE]
       ELSE [board |-> board, currentPlayer |-> "black", gameOver |-> FALSE,
             blackCount |-> blackCount, whiteCount |-> whiteCount, skipTurn |-> FALSE]

\* White's move hands the turn to Black whenever the game goes on
afterWhiteMove_noskip(board) ==
    LET blackCount == countDiscs(board, "black")
        whiteCount == countDiscs(board, "white")
    IN IF findLegalMoves(board, "black") = <<>> /\ findLegalMoves(board, "white") = <<>>
       THEN [board |-> board, currentPlayer |-> "black", gameOver |-> TRUE,
             blackCount |-> blackCount, whiteCount |-> whiteCount, skipTurn |-> FALSE]
       ELSE [board |-> board, currentPlayer |-> "black", gameOver |-> FALSE,
             blackCount |-> blackCount, whiteCount |-> whiteCount, skipTurn |-> FALSE]

\* the end of makeAIMove: the counts and the three setOthello calls
afterWhiteMove(board) ==
    LET blackCount == countDiscs(board, "black")
        whiteCount == countDiscs(board, "white")
        canNextPlayerMove == Len(findLegalMoves(board, "black")) > 0
        aiCanMove == Len(findLegalMoves(board, "white")) > 0
    IN IF ~canNextPlayerMove
       THEN IF ~aiCanMove
            THEN [board |-> board, currentPlayer |-> "black", gameOver |-> TRUE,
                  blackCount |-> blackCount, whiteCount |-> whiteCount, skipTurn |-> FALSE]
            ELSE [board |-> board, currentPlayer |-> "white", gameOver |-> FALSE,
                  blackCount |-> blackCount, whiteCount |-> whiteCount, skipTurn |-> TRUE]
       ELSE [board |-> board, currentPlayer |-> "black", gameOver |-> FALSE,
             blackCount |-> blackCount, whiteCount |-> whiteCount, skipTurn |-> FALSE]

\* makeAIMove(currentBoard) run in the render whose state is o: the set of
\* <<the state it leaves, whether it called setOthello, the cell it played>>
makeAIMove(o, currentBoard) ==
    IF o.gameOver THEN {<<o, FALSE, noMove>>}
    ELSE IF Len(findLegalMoves(currentBoard, "white")) = 0
    THEN IF ~(Len(findLegalMoves(currentBoard, "black")) > 0)
         THEN {<<[o EXCEPT !.gameOver = TRUE], TRUE, noMove>>}
         ELSE {<<[o EXCEPT !.currentPlayer = "black", !.skipTurn = TRUE], TRUE, noMove>>}
    ELSE {IF bestMove[1] # -1 /\ bestMove[2] # -1
          THEN <<afterWhiteMove(placeAndFlip(currentBoard, bestMove[1], bestMove[2], "white")),
                 TRUE, bestMove>>
          ELSE <<o, FALSE, noMove>> :
             bestMove \in chooseMoves(currentBoard)}

(***************************************************************************)
(* The Othello game.  The two games share no state but the two visibility  *)
(* flags: the tic-tac-toe handlers neither read nor write othello, the     *)
(* Othello handlers neither read nor write tictactoe.  Spec runs the       *)
(* toggles with the tic-tac-toe handlers; SpecOthello runs toggleOthello   *)
(* with the Othello handlers (toggleGame acts on the Othello game only by  *)
(* hiding its panel, as the closing toggleOthello does).                   *)
(***************************************************************************)
\* Black's first FreeClicks moves of a game are tried on every cell; later
\* ones on every cell that is no legal move and on the first legal move
FreeClicks == 1

clickTried(o, n, row, col) ==
    IF n < FreeClicks \/ ~isLegalMove(o, row, col) THEN TRUE
    ELSE findLegalMoves(o.board, "black")[1] = <<row, col>>

\* onClick={() => isLegalMove ? placeDisc(row, col) : null} on a rendered
\* cell (the board is rendered only while showOthello).  A click that does
\* not reach setOthello updates no state.
OthelloCellClick(row, col) ==
    /\ showOthello
    /\ clickTried(othello, clicks, row, col)
    /\ LET r == IF isLegalMove(othello, row, col) THEN placeDisc(othello, row, col)
                ELSE <<othello, FALSE>>
       IN IF r[2]
          THEN /\ othello' = r[1]
               /\ othelloTimer' = othelloTurnEffect(showOthello, r[1])
               /\ clicks' = clicks + 1
               /\ last' = [op |-> "placeDisc", index |-> row * 6 + col, removed |-> -1]
          ELSE UNCHANGED <<othello, othelloTimer, clicks, last>>
    /\ UNCHANGED <<tictactoe, showGame, showOthello, aiTimer, playerOrder, aiOrder,
                   call, result>>

\* an effect that runs again only when the turn changes hands (the board is
\* not among its dependencies)
OthelloTimerFires_m ==
    /\ othelloTimer # <<>>
    /\ \E r \in makeAIMove(othello, othelloTimer[1]) :
          /\ othello' = r[1]
          /\ othelloTimer' = IF r[2] /\ r[1].currentPlayer # othello.currentPlayer
                             THEN othelloTurnEffect(showOthello, r[1]) ELSE <<>>
          /\ last' = [op |-> "makeAIMove",
                      index |-> IF r[3] = noMove THEN -1 ELSE r[3][1] * 6 + r[3][2],
                      removed |-> -1]
    /\ UNCHANGED <<tictactoe, showGame, showOthello, aiTimer, clicks, playerOrder,
                   aiOrder, call, result>>

\* the timer armed by the Othello AI effect fires.  When makeAIMove calls
\* no setter nothing is rendered again and no new timer is armed.
OthelloTimerFires ==
    /\ othelloTimer # <<>>
    /\ \E r \in makeAIMove(othello, othelloTimer[1]) :
          /\ othello' = r[1]
          /\ othelloTimer' = IF r[2] THEN othelloTurnEffect(showOthello, r[1]) ELSE <<>>
          /\ last' = [op |-> "makeAIMove",
                      index |-> IF r[3] = noMove THEN -1 ELSE r[3][1] * 6 + r[3][2],
                      removed |-> -1]
    /\ UNCHANGED <<tictactoe, showGame, showOthello, aiTimer, clicks, playerOrder,
                   aiOrder, call, result>>

\* placeDisc and makeAIMove as functions: while the game is shown, each is
\* applied to the arguments any caller could pass in the current state, and
\* what it would set is recorded; the state itself is left as it is
CallPlaceDisc(row, col) ==
    /\ showOthello
    /\ call = noCall
    /\ call' = [fn |-> "placeDisc", row |-> row, col |-> col]
    /\ result' = [fn |-> "placeDisc", value |-> placeDisc(othello, row, col)[1]]
    /\ UNCHANGED <<tictactoe, showGame, othello, showOthello, aiTimer, othelloTimer,
                   clicks, playerOrder, aiOrder, last>>

CallMakeAIMove ==
    /\ showOthello
    /\ call = noCall
    /\ call' = [fn |-> "makeAIMove", board |-> othello.board]
    /\ result' = [fn |-> "makeAIMove",
                  value |-> {r[1] : r \in makeAIMove(othello, othello.board)}]
    /\ UNCHANGED <<tictactoe, showGame, othello, showOthello, aiTimer, othelloTimer,
                   clicks, playerOrder, aiOrder, last>>

ReturnCall ==
    /\ call # noCall
    /\ call' = noCall
    /\ result' = noCall
    /\ UNCHANGED <<tictactoe, showGame, othello, showOthello, aiTimer, othelloTimer,
                   clicks, playerOrder, aiOrder, last>>

NextOthello ==
    \/ call = noCall /\ ToggleOthello
    \/ call = noCall /\ \E row \in Size, col \in Size : OthelloCellClick(row, col)
    \/ call = noCall /\ OthelloTimerFires
    \/ \E row \in Size, col \in Size : CallPlaceDisc(row, col)
    \/ CallMakeAIMove
    \/ ReturnCall

SpecOthello == Init /\ [][NextOthello]_vars

(***************************************************************************)
(* The Othello game with its scheduling.  A timer armed by setTimeout fires *)
(* unless the effect's cleanup clears it, so the timer step is weakly fair. *)
(* The human who keeps playing makes a move whenever Black is to move and   *)
(* stays to move: weak fairness of the clicks that apply a move.  A click    *)
(* that applies no move updates no state, so only the applied ones are     *)
(* steps here.                                                             *)
(***************************************************************************)
\* a click that applies a move; the tests in front repeat what isLegalMove and
\* placeDisc require of such a click
BlackPlays ==
    /\ showOthello /\ ~othello.gameOver /\ othello.currentPlayer = "black"
    /\ \E row \in Size, col \in Size :
          /\ othello.board[row][col] = ""
          /\ getFlippedDiscs(othello.board, row, col, "black") # <<>>
          /\ OthelloCellClick(row, col)
          /\ othello' # othello

NextOthelloLive ==
    \/ ToggleOthello
    \/ BlackPlays
    \/ OthelloTimerFires

\* WF_vars(OthelloTimerFires) with its ENABLED written out: the timer step is
\* enabled exactly while a timer is armed, and every firing changes the state
\* (it clears the timer or arms one for the new board)
timerFairness ==
    []<>(othelloTimer = <<>>) \/ []<><<OthelloTimerFires>>_vars

\* the timer alone is fair: the human may play, or may never touch the board
SpecOthelloTimer ==
    /\ Init
    /\ [][NextOthelloLive]_vars
    /\ timerFairness

SpecOthelloLive ==
    /\ Init
    /\ [][NextOthelloLive]_vars
    /\ timerFairness
    /\ WF_vars(BlackPlays)

(***************************************************************************)
(* Both games together with their timers, over the opening of each game:   *)
(* the first ClosingMoves clicks of the human in a game and the Opponent's *)
(* answers to them, with the panels opened and closed at any moment.       *)
(***************************************************************************)
ClosingMoves == 1

NextClosing ==
    \/ ToggleGame
    \/ ToggleOthello
    \/ \E index \in Cells : tictactoe.playerMarks < ClosingMoves /\ HandleCellClick(index)
    \/ AiTimerFires
    \/ \E row \in Size, col \in Size : clicks < ClosingMoves /\ OthelloCellClick(row, col)
    \/ OthelloTimerFires

SpecClosing == Init /\ [][NextClosing]_vars

(***************************************************************************)
(* Both games together, in the window in which the Opponent's move is      *)
(* pending.  A hidden game keeps its state until its panel is opened       *)
(* again, so the states of the two games multiply; SpecPending therefore   *)
(* follows each game from the opening of its panel to the moment the       *)
(* Opponent's timer is armed and stays in that window, where clicks still  *)
(* arrive and placeDisc is applied as a function.  What the timers do when *)
(* they fire, and the windows later in a game, are in Spec and SpecOthello.*)
(***************************************************************************)
NextPending ==
    \/ call = noCall /\ ToggleGame
    \/ call = noCall /\ ToggleOthello
    \/ call = noCall /\ \E index \in Cells : HandleCellClick(index)
    \/ call = noCall /\ \E row \in Size, col \in Size : OthelloCellClick(row, col)
    \/ \E row \in Size, col \in Size : CallPlaceDisc(row, col)
    \/ ReturnCall

SpecPending == Init /\ [][NextPending]_vars

(***************************************************************************)
(* The pure functions, applied to inputs drawn from bounded sets           *)
(***************************************************************************)
allBoards == [Cells -> {Null, "O", "X"}]

InitCheckWinner ==
    /\ tictactoe = initialTictactoe
    /\ showGame = FALSE
    /\ othello = initialOthello
    /\ showOthello = FALSE
    /\ aiTimer = <<>>
    /\ othelloTimer = <<>>
    /\ clicks = 0
    /\ playerOrder = <<>>
    /\ aiOrder = <<>>
    /\ last = [op |-> "init", index |-> -1, removed |-> -1]
    /\ call \in {[fn |-> "checkWinner", board |-> b] : b \in allBoards}
    /\ result = noCall

CallCheckWinner ==
    /\ call.fn = "checkWinner"
    /\ result = noCall
    /\ result' = [fn |-> "checkWinner", value |-> checkWinner(call.board)]
    /\ UNCHANGED <<tictactoe, showGame, othello, showOthello, aiTimer, othelloTimer, clicks,
                   playerOrder, aiOrder, last, call>>

SpecCheckWinner == InitCheckWinner /\ [][CallCheckWinner]_vars

\* Othello boards: the first MaxVaried cells of variedSquares hold any of
\* empty, black, white; every other cell is empty
MaxVaried == 8
variedSquares == << <<0, 0>>, <<0, 1>>, <<0, 2>>, <<1, 0>>, <<1, 1>>, <<2, 0>>,
                    <<2, 2>>, <<0, 3>>, <<1, 2>>, <<2, 1>> >>

variedIndex == 1..(IF MaxVaried <= Len(variedSquares) THEN MaxVaried ELSE Len(variedSquares))

boardOf(f) ==
    [r \in Size |-> [c \in Size |->
        IF \E k \in variedIndex : variedSquares[k] = <<r, c>>
        THEN f[CHOOSE k \in variedIndex : variedSquares[k] = <<r, c>>]
        ELSE ""]]

othelloBoards == {boardOf(f) : f \in [variedIndex -> {"", "black", "white"}]}

InitFindLegalMoves ==
    /\ tictactoe = initialTictactoe
    /\ showGame = FALSE
    /\ othello = initialOthello
    /\ showOthello = FALSE
    /\ aiTimer = <<>>
    /\ othelloTimer = <<>>
    /\ clicks = 0
    /\ playerOrder = <<>>
    /\ aiOrder = <<>>
    /\ last = [op |-> "init", index |-> -1, removed |-> -1]
    /\ call \in {[fn |-> "findLegalMoves", board |-> b, player |-> p] :
                    b \in othelloBoards, p \in {"black", "white"}}
    /\ result = noCall

CallFindLegalMoves ==
    /\ call.fn = "findLegalMoves"
    /\ result = noCall
    /\ result' = [fn |-> "findLegalMoves",
                  value |-> findLegalMoves(call.board, call.player)]
    /\ UNCHANGED <<tictactoe, showGame, othello, showOthello, aiTimer, othelloTimer, clicks,
                   playerOrder, aiOrder, last, call>>

SpecFindLegalMoves == InitFindLegalMoves /\ [][CallFindLegalMoves]_vars

(***************************************************************************)
(* The chat backend, src/app/api/chat/route.ts.  A request is what the     *)
(* handler can tell apart: whether the body parses as JSON and to what,    *)
(* whether it has messages and their roles, the model id, and what the two *)
(* language-model services do when called.  Replies are written in ASCII:  *)
(* openAIFallback stands for the fixed Japanese apology of line 145, the   *)
(* two notes for the Japanese suffixes of lines 161 and 205.               *)
(***************************************************************************)
MaxMessages == 2
maxHistory == 10

DEFAULT_MODEL == "gpt-4o"
AVAILABLE_MODELS == {"gpt-4o", "gpt-4-turbo", "gpt-3.5-turbo", "gpt-3.5-turbo-16k",
                     "claude-3-5-sonnet", "claude-3-haiku"}
requestModels == {"absent", "gpt-3.5-turbo", "claude-3-haiku", "no-such-model"}

openAIFallback == "Sorry. An error occurred while communicating with the AI."
promiseText == "[object Promise]"
simulatedNote == " (simulating a Claude-style reply)"
claudeErrorNote == " (fallback because of a Claude API error)"
serverError == "An error occurred while communicating with the AI"

\* getModelConfig(modelId).apiType
apiType(modelId) ==
    IF modelId \in {"claude-3-5-sonnet", "claude-3-haiku"} THEN "anthropic" ELSE "openai"

\* limitConversationHistory(messages, 10): the last 10 messages
limitConversationHistory(messages) ==
    IF Len(messages) <= maxHistory THEN messages
    ELSE SubSeq(messages, Len(messages) - maxHistory + 1, Len(messages))

\* what the model answers to a history: an opaque text
answerOf(modelId, messages) ==
    "answer of " \o modelId \o " to " \o ToString(Len(messages)) \o " messages"

\* generateOpenAIResponse: the chain's answer, or the fixed apology when
\* anything inside the try block throws
generateOpenAIResponse(req, modelId, messages) ==
    IF req.openai = "error" THEN openAIFallback ELSE answerOf(modelId, messages)

\* generateClaudeResponse.  Without an API key, and when the Claude call
\* fails, it returns generateOpenAIResponse(...) + note without awaiting the
\* call: the promise is converted to text and the note appended.
generateClaudeResponse(req, modelId, messages) ==
    IF ~req.anthropicKey THEN promiseText \o simulatedNote
    ELSE IF req.anthropic = "error" THEN promiseText \o claudeErrorNote
    ELSE answerOf(modelId, messages)

\* a handler whose catch block answers with the apology and status 200
POST_m(req) ==
    IF req.body # "object" \/ ~req.hasMessages
    THEN [status |-> 200, body |-> [reply |-> openAIFallback]]
    ELSE LET selectedModel == IF req.model \in AVAILABLE_MODELS THEN req.model
                              ELSE DEFAULT_MODEL
             limitedMessages == limitConversationHistory(req.messages)
             langchainReadyMessages == <<"system">> \o limitedMessages
             reply == IF apiType(selectedModel) = "anthropic"
                      THEN generateClaudeResponse(req, selectedModel, langchainReadyMessages)
                      ELSE generateOpenAIResponse(req, selectedModel, langchainReadyMessages)
         IN [status |-> 200, body |-> [reply |-> reply]]

\* POST: req.json() throws on a body that is no JSON, the destructuring on
\* a body that is JSON null, [...messages] on missing messages; the catch
\* block answers all three with status 500 and a body {error}
POST(req) ==
    IF req.body # "object" \/ ~req.hasMessages
    THEN [status |-> 500, body |-> [error |-> serverError]]
    ELSE LET selectedModel == IF req.model \in AVAILABLE_MODELS THEN req.model
                              ELSE DEFAULT_MODEL
             limitedMessages == limitConversationHistory(req.messages)
             langchainReadyMessages == <<"system">> \o limitedMessages
             reply == IF apiType(selectedModel) = "anthropic"
                      THEN generateClaudeResponse(req, selectedModel, langchainReadyMessages)
                      ELSE generateOpenAIResponse(req, selectedModel, langchainReadyMessages)
         IN [status |-> 200, body |-> [reply |-> reply]]

\* the histories a request carries: up to MaxMessages messages, by role
RECURSIVE historiesUpTo(_)
historiesUpTo(n) ==
    IF n = 0 THEN {<<>>}
    ELSE historiesUpTo(n - 1)
         \cup {Append(h, r) : h \in {g \in historiesUpTo(n - 1) : Len(g) = n - 1},
                                r \in {"user", "assistant"}}

chatRequests ==
    {[fn |-> "POST", body |-> b, hasMessages |-> m[1], messages |-> m[2], model |-> md,
      openai |-> o, anthropicKey |-> k, anthropic |-> a] :
        b \in {"unparsable", "null", "object"},
        m \in {<<FALSE, <<>> >>} \cup {<<TRUE, h>> : h \in historiesUpTo(MaxMessages)},
        md \in requestModels,
        o \in {"ok", "error"},
        k \in BOOLEAN,
        a \in {"ok", "error"}}

InitChat ==
    /\ tictactoe = initialTictactoe
    /\ showGame = FALSE
    /\ othello = initialOthello
    /\ showOthello = FALSE
    /\ aiTimer = <<>>
    /\ othelloTimer = <<>>
    /\ clicks = 0
    /\ playerOrder = <<>>
    /\ aiOrder = <<>>
    /\ last = [op |-> "init", index |-> -1, removed |-> -1]
    /\ call \in chatRequests
    /\ result = noCall

CallPOST ==
    /\ call.fn = "POST"
    /\ result = noCall
    /\ result' = [fn |-> "POST", value |-> POST(call)]
    /\ UNCHANGED <<tictactoe, showGame, othello, showOthello, aiTimer, othelloTimer, clicks,
                   playerOrder, aiOrder, last, call>>

SpecChat == InitChat /\ [][CallPOST]_vars

(***************************************************************************)
(* The chat panel: input, messages, loading, error and agentMode, and the  *)
(* fetch that sendMessage leaves in flight.  A string is the sequence of   *)
(* its UTF-16 code units.  In SpecSend the variable call holds the panel's *)
(* useState values and result holds the request in flight (noCall: none).  *)
(***************************************************************************)
MaxExchanges == 1

\* the white space String.prototype.trim removes, as far as the inputs below use it
whitespace == {9, 10, 11, 12, 13, 32, 160, 12288}

RECURSIVE trim(_)
trim(s) ==
    IF s = <<>> THEN s
    ELSE IF Head(s) \in whitespace THEN trim(Tail(s))
    ELSE IF s[Len(s)] \in whitespace THEN trim(SubSeq(s, 1, Len(s) - 1))
    ELSE s

\* String.prototype.toLowerCase on the Basic Latin and Latin-1 capitals;
\* kana, the ideographic zero U+3007 and the multiplication sign U+00D7 have no case
toLowerCaseUnit(u) ==
    IF u \in 65..90 \/ (u \in 192..222 /\ u # 215) THEN u + 32 ELSE u

toLowerCase(s) == [i \in 1..Len(s) |-> toLowerCaseUnit(s[i])]

\* tic-tac-toe keywords that include "tic tac toe"
tictactoeKeywords_m ==
    {<<12510, 12523, 12496, 12484>>, <<12414, 12427, 12400, 12388>>, <<12295, 215>>,
     <<116, 105, 99, 32, 116, 97, 99, 32, 116, 111, 101>>}

\* marubatsu in katakana, marubatsu in hiragana, U+3007 U+00D7
tictactoeKeywords ==
    {<<12510, 12523, 12496, 12484>>, <<12414, 12427, 12400, 12388>>, <<12295, 215>>}

\* osero in katakana, osero in hiragana, ribaashi (reversi) in katakana
othelloKeywords ==
    {<<12458, 12475, 12525>>, <<12362, 12379, 12429>>, <<12522, 12496, 12540, 12471>>}

\* "tic tac toe", "othello", "Othello", " " + osero in katakana, "hello"
chatTexts ==
    {<<116, 105, 99, 32, 116, 97, 99, 32, 116, 111, 101>>,
     <<111, 116, 104, 101, 108, 108, 111>>,
     <<79, 116, 104, 101, 108, 108, 111>>,
     <<32, 12458, 12475, 12525>>,
     <<104, 101, 108, 108, 111>>}

\* what the user types into the textarea: nothing, a blank, a keyword, a text
typedInputs == {<<>>, <<32>>} \cup tictactoeKeywords \cup othelloKeywords \cup chatTexts

\* the assistant's greeting the message list starts with
greeting == [role |-> "assistant", content |-> <<12424, 12358, 12290, 20309, 12363, 32862, 12365, 12383, 12356, 12371, 12392, 12354, 12427, 65311>>]

\* data.reply of a successful response ("ok")
replyText == <<111, 107>>

initialChat ==
    [fn |-> "sendMessage", input |-> <<>>, messages |-> <<greeting>>,
     loading |-> FALSE, error |-> FALSE, agentMode |-> FALSE]

InitSend ==
    /\ tictactoe = initialTictactoe
    /\ showGame = FALSE
    /\ othello = initialOthello
    /\ showOthello = FALSE
    /\ aiTimer = <<>>
    /\ othelloTimer = <<>>
    /\ clicks = 0
    /\ playerOrder = <<>>
    /\ aiOrder = <<>>
    /\ last = [op |-> "init", index |-> -1, removed |-> -1]
    /\ call = initialChat
    /\ result = noCall

\* onChange of the textarea
SetInput(text) ==
    /\ call' = [call EXCEPT !.input = text]
    /\ UNCHANGED <<tictactoe, showGame, othello, showOthello, aiTimer, othelloTimer, clicks,
                   playerOrder, aiOrder, last, result>>

\* setAgentMode(!agentMode)
ToggleAgentMode ==
    /\ call' = [call EXCEPT !.agentMode = ~@]
    /\ UNCHANGED <<tictactoe, showGame, othello, showOthello, aiTimer, othelloTimer, clicks,
                   playerOrder, aiOrder, last, result>>

userMessages(messages) == Cardinality({i \in 1..Len(messages) : messages[i].role = "user"})

\* sendMessage up to its await
SendMessage ==
    LET input == call.input
        lowerInput == toLowerCase(input)
        userMessage == [role |-> "user", content |-> input]
    IN  IF trim(input) = <<>> THEN UNCHANGED vars
        ELSE IF call.loading THEN UNCHANGED vars
        ELSE IF lowerInput \in tictactoeKeywords
        THEN /\ toggleGame
             /\ call' = [call EXCEPT !.input = <<>>]
             /\ UNCHANGED result
        ELSE IF lowerInput \in othelloKeywords
        THEN /\ toggleOthello
             /\ call' = [call EXCEPT !.input = <<>>]
             /\ UNCHANGED result
        ELSE /\ userMessages(call.messages) < MaxExchanges
             /\ call' = [call EXCEPT !.messages = Append(@, userMessage), !.input = <<>>,
                                     !.error = FALSE, !.loading = TRUE]
             /\ result' = [fn |-> "fetch",
                           endpoint |-> IF call.agentMode THEN "/api/agent" ELSE "/api/chat",
                           messages |-> Append(call.messages, userMessage)]
             /\ UNCHANGED <<tictactoe, showGame, othello, showOthello, aiTimer, othelloTimer,
                            clicks, playerOrder, aiOrder, last>>

\* sendMessage after its await: the reply is appended, or the error is shown
FetchSettles ==
    /\ result # noCall
    /\ result.fn = "fetch"
    /\ \E ok \in BOOLEAN :
          call' = [call EXCEPT
                     !.messages = IF ok THEN Append(@, [role |-> "assistant", content |-> replyText])
                                  ELSE @,
                     !.error = ~ok, !.loading = FALSE]
    /\ result' = noCall
    /\ UNCHANGED <<tictactoe, showGame, othello, showOthello, aiTimer, othelloTimer, clicks,
                   playerOrder, aiOrder, last>>

\* the chat panel alone: the textarea and the send button are disabled while
\* loading, and the games are shown and hidden through the keywords
NextSend ==
    \/ ToggleAgentMode
    \/ \E text \in typedInputs : ~call.loading /\ SetInput(text)
    \/ ~call.loading /\ SendMessage
    \/ FetchSettles

SpecSend == InitSend /\ [][NextSend]_vars

(***************************************************************************)
(* The agent endpoint (api/agent/route.ts): POST and the function that     *)
(* createAgent returns, as a process.  In SpecAgent the variable call      *)
(* holds the request and the position of its handler, result the response.*)
(* A text is the sequence of its UTF-16 code units; a whole                *)
(* <tool>...</tool> block of a model output is one unit, toolBlock when it *)
(* names a tool and blankToolBlock when its tool_name is blank.            *)
(***************************************************************************)
toolBlock == -1
blankToolBlock == -2

\* the fixed replies of the route
agentTexts ==
    [
     invalid |->
         <<
            30003, 12375, 35379, 12354, 12426, 12414, 12379, 12435, 12364, 12289,
            12513, 12483, 12475, 12540, 12472, 12364, 28961, 21177, 12391, 12377,
            12290, 12418, 12358, 19968, 24230, 12362, 35430, 12375, 12367, 12384,
            12373, 12356, 12290 >>,
     timeout |->
         <<
            12479, 12452, 12512, 12450, 12454, 12488, 12375, 12414, 12375, 12383,
            12290, 12418, 12358, 23569, 12375, 31777, 21336, 12394, 36074, 21839,
            12434, 12377, 12427, 12363, 12289, 24460, 12391, 12418, 12358, 19968,
            24230, 35430, 12375, 12390, 12415, 12390, 12367, 12384, 12373, 12356,
            12290 >>,
     unanswered |->
         <<
            30003, 12375, 35379, 12354, 12426, 12414, 12379, 12435, 12290, 22238,
            31572, 12434, 29983, 25104, 12391, 12365, 12414, 12379, 12435, 12391,
            12375, 12383, 12290, 21029, 12398, 36074, 21839, 12434, 35430, 12375,
            12390, 12415, 12390, 12367, 12384, 12373, 12356, 12290 >>,
     failed |->
         <<
            30003, 12375, 35379, 12354, 12426, 12414, 12379, 12435, 12364, 12289,
            36074, 21839, 12395, 24540, 31572, 12391, 12365, 12414, 12379, 12435,
            12391, 12375, 12383, 12290, 21029, 12398, 36074, 21839, 12434, 35430,
            12375, 12390, 12415, 12390, 12367, 12384, 12373, 12356, 12290 >>,
     nothingToSay |->
         <<
            12358, 12435, 12290, 20309, 12363, 36074, 21839, 12364, 12354, 12428,
            12400, 35328, 12387, 12390, 12397, 12290 >>,
     modelFailed |->
         <<
            30003, 12375, 35379, 12394, 12356, 12290, 65, 73, 12514, 12487, 12523,
            12398, 23455, 34892, 20013, 12395, 12456, 12521, 12540, 12364, 30330,
            29983, 12375, 12383, 12424, 12290, 12418, 12358, 19968, 24230, 36074,
            21839, 12375, 12390, 12367, 12428, 12394, 12356, 12363, 65311 >>,
     toolFailed |->
         <<
            12377, 12414, 12394, 12356, 12290, 26908, 32034, 12484, 12540, 12523,
            12364, 12358, 12414, 12367, 21205, 12363, 12394, 12363, 12387, 12383,
            12415, 12383, 12356, 12290, 10, 10, 12418, 12358, 19968, 24230, 36074,
            21839, 12375, 12390, 12418, 12425, 12360, 12427, 65311, 12354, 12427,
            12356, 12399, 12289, 21029, 12398, 35282, 24230, 12363, 12425, 36074,
            21839, 12375, 12390, 12415, 12390, 12367, 12428, 12394, 12356, 12363,
            65311 >>,
     chainFailed |->
         <<
            12377, 12414, 12394, 12356, 12290, 24540, 31572, 12398, 29983, 25104,
            20013, 12395, 12456, 12521, 12540, 12364, 30330, 29983, 12375, 12383,
            12424, 12290, 12418, 12358, 19968, 24230, 36074, 21839, 12375, 12390,
            12415, 12390, 12367, 12384, 12373, 12356, 12290 >>,
     initFailed |->
         <<
            30003, 12375, 35379, 12354, 12426, 12414, 12379, 12435, 12290, 65, 73,
            12456, 12540, 12472, 12455, 12531, 12488, 12398, 21021, 26399, 21270,
            12395, 22833, 25943, 12375, 12414, 12375, 12383, 12290, 31649, 29702,
            32773, 12395, 12362, 21839, 12356, 21512, 12431, 12379, 12367, 12384,
            12373, 12356, 12290 >> ]

\* what a model invocation may resolve to: nothing, white space, text, a
\* tool block alone, text with a tool block, a tool block without a name
modelOutputs ==
    {<<>>, <<32>>, <<111, 107>>, <<toolBlock>>, <<111, 107, 32, toolBlock>>, <<blankToolBlock>>}

\* finalResponse.replace(/<tool>[\s\S]*?<\/tool>/g, "")
stripTools(s) == SelectSeq(s, LAMBDA u : u \notin {toolBlock, blankToolBlock})

\* parseAgentResponse: <<useTool, toolName is not blank>> from the first block
parseAgentResponse(s) ==
    LET blocks == SelectSeq(s, LAMBDA u : u \in {toolBlock, blankToolBlock})
    IN IF blocks = <<>> THEN <<FALSE, FALSE>> ELSE <<TRUE, blocks[1] = toolBlock>>

\* the requests: the body, and for a body with a non-empty messages array
\* what its last message is: a user message with a timely keyword, a short
\* one, one of 50 characters or more without keyword, a message whose
\* content is no string, a null entry, or an assistant message
agentRequests ==
    {[fn |-> "agentPOST", body |-> b, lastMessage |-> "none"] :
        b \in {"unparsable", "null", "noMessages", "notArray", "emptyArray"}}
    \cup {[fn |-> "agentPOST", body |-> "messages", lastMessage |-> m] :
            m \in {"timely", "short", "long", "notString", "nullEntry", "assistant"}}

\* needsTimeliness: hasTimelyKeywords || isShortQuery || hasExplicitMarker,
\* of userInput (the default input, used for a content that is no string, is short)
needsTimeliness(lastMessage) == lastMessage # "long"

InitAgent ==
    /\ tictactoe = initialTictactoe
    /\ showGame = FALSE
    /\ othello = initialOthello
    /\ showOthello = FALSE
    /\ aiTimer = <<>>
    /\ othelloTimer = <<>>
    /\ clicks = 0
    /\ playerOrder = <<>>
    /\ aiOrder = <<>>
    /\ last = [op |-> "init", index |-> -1, removed |-> -1]
    /\ call \in {[request |-> r, pc |-> "received", finalResponse |-> <<>>, response |-> <<>>] :
                    r \in agentRequests}
    /\ result = noCall

agentUnchanged ==
    UNCHANGED <<tictactoe, showGame, othello, showOthello, aiTimer, othelloTimer, clicks,
                playerOrder, aiOrder, last>>

\* NextResponse.json({reply}) and NextResponse.json({reply}, {status: 200})
replyJson(text) == [fn |-> "agentPOST", status |-> 200, body |-> [reply |-> text]]

\* POST up to the call of createAgent: req.json() throws on a body that is
\* no JSON and the destructuring on JSON null (both answered by the catch
\* block), the guard answers missing, non-array and empty messages
AgentParse ==
    /\ call.pc = "received"
    /\ IF call.request.body \in {"unparsable", "null"}
       THEN /\ result' = replyJson(agentTexts.failed)
            /\ call' = [call EXCEPT !.pc = "done"]
       ELSE IF call.request.body # "messages"
       THEN /\ result' = replyJson(agentTexts.invalid)
            /\ call' = [call EXCEPT !.pc = "done"]
       ELSE /\ call' = [call EXCEPT !.pc = "createAgent"]
            /\ UNCHANGED result
    /\ agentUnchanged

\* createAgent, and the start of the function it returns up to the first
\* await: a failed initialisation returns a function answering with a fixed
\* text; messages.map throws on a null entry, which the outer catch answers
CreateAgent ==
    /\ call.pc = "createAgent"
    /\ \E initialised \in BOOLEAN :
          call' = IF ~initialised
                  THEN [call EXCEPT !.pc = "settled", !.response = agentTexts.initFailed]
                  ELSE IF call.request.lastMessage = "nullEntry"
                  THEN [call EXCEPT !.pc = "settled", !.response = agentTexts.chainFailed]
                  ELSE [call EXCEPT !.pc = "first"]
    /\ UNCHANGED result
    /\ agentUnchanged

\* from "finalResponse = finalResponse.replace(...).trim()" on: an empty text
\* goes to the fallback model call, any other text is returned
agentFinish(c, text) ==
    LET finalResponse == trim(stripTools(text))
    IN IF finalResponse = <<>>
       THEN [c EXCEPT !.pc = "emptyFallback", !.finalResponse = finalResponse]
       ELSE [c EXCEPT !.pc = "settled", !.response = finalResponse]

awaitingModel == {"first", "forcedSearch", "followUp", "errorFollowUp", "emptyFallback", "simple"}

\* the model invocation the function is waiting for resolves with out
ModelReplies(out) ==
    /\ call.pc \in awaitingModel
    /\ call' =
          IF call.pc = "first"
          THEN LET parsed == parseAgentResponse(out)
               IN IF needsTimeliness(call.request.lastMessage) /\ ~parsed[1]
                  THEN [call EXCEPT !.pc = "forcedSearch", !.finalResponse = out]
                  ELSE IF parsed[1] /\ parsed[2]
                  THEN [call EXCEPT !.pc = "followUp", !.finalResponse = out]
                  ELSE agentFinish(call, out)
          ELSE IF call.pc \in {"forcedSearch", "followUp", "errorFollowUp"}
          THEN agentFinish(call, out)
          ELSE IF call.pc = "emptyFallback"
          THEN [call EXCEPT !.pc = "settled",
                            !.response = IF out = <<>> THEN agentTexts.nothingToSay ELSE out]
          ELSE [call EXCEPT !.pc = "settled", !.response = out]
    /\ UNCHANGED result
    /\ agentUnchanged

\* the model invocation the function is waiting for rejects
ModelThrows ==
    /\ call.pc \in awaitingModel
    /\ call' =
          IF call.pc = "first" THEN [call EXCEPT !.pc = "simple"]
          ELSE IF call.pc = "forcedSearch" THEN agentFinish(call, call.finalResponse)
          ELSE IF call.pc = "followUp" THEN [call EXCEPT !.pc = "errorFollowUp"]
          ELSE IF call.pc = "errorFollowUp" THEN agentFinish(call, agentTexts.toolFailed)
          ELSE IF call.pc = "emptyFallback"
          THEN [call EXCEPT !.pc = "settled", !.response = agentTexts.nothingToSay]
          ELSE [call EXCEPT !.pc = "settled", !.response = agentTexts.modelFailed]
    /\ UNCHANGED result
    /\ agentUnchanged

\* the timer of POST's timeoutPromise fires before the agent has settled:
\* Promise.race resolves with the timeout text
GlobalTimeout ==
    /\ call.pc \in awaitingModel
    /\ call' = [call EXCEPT !.pc = "settled", !.response = agentTexts.timeout]
    /\ UNCHANGED result
    /\ agentUnchanged

\* a reply that ignores the check for an empty response
agentReply_m(response) == response

\* response && response.trim().length > 0 ? response : the fixed text
agentReply(response) ==
    IF response # <<>> /\ Len(trim(response)) > 0 THEN response ELSE agentTexts.unanswered

\* POST after the race
AgentRespond ==
    /\ call.pc = "settled"
    /\ result' = replyJson(agentReply(call.response))
    /\ call' = [call EXCEPT !.pc = "done"]
    /\ agentUnchanged

NextAgent ==
    \/ AgentParse
    \/ CreateAgent
    \/ \E out \in modelOutputs : ModelReplies(out)
    \/ ModelThrows
    \/ GlobalTimeout
    \/ AgentRespond

SpecAgent == InitAgent /\ [][NextAgent]_vars

\* the handler's own steps run, and its timer fires unless the agent settles
\* first; the model service owes nothing
SpecAgentLive ==
    SpecAgent /\ WF_vars(AgentParse) /\ WF_vars(CreateAgent) /\ WF_vars(GlobalTimeout)
              /\ WF_vars(AgentRespond)

(***************************************************************************)
(* The search of the agent endpoint: performGoogleSearch with the two      *)
(* functions it falls back to.  The environment of a call is part of its   *)
(* input: which keys are set, and how each service call ends (a result     *)
(* with items, a result without, a rejection, or nothing within            *)
(* TOOL_TIMEOUT_MS).  A function returns [ok, source, text]; ok = FALSE is *)
(* a thrown error or rejected promise.                                     *)
(***************************************************************************)
\* pieces of the texts the three functions build (the date of the header is
\* left out; item is one formatted result without snippet)
searchTexts ==
    [
     open |->
        <<
           12300 >>,
     noResults |->
        <<
           12301, 12398, 26908, 32034, 32080, 26524, 12399, 12354, 12426, 12414,
           12379, 12435, 12391, 12375, 12383, 12290 >>,
     resultsHead |->
        <<
           12301, 12398, 26908, 32034, 32080, 26524, 65288 >>,
     resultsAt |->
        <<
           26178, 28857, 65289, 58, 10, 10 >>,
     simulatedHead |->
        <<
           12301, 12398, 26908, 32034, 32080, 26524, 65288, 12471, 12511, 12517,
           12524, 12540, 12488, 12375, 12383, 12487, 12514, 32080, 26524, 65289, 58,
           10, 32, 32, 32, 32, 32, 32, 10, 49, 46, 32 >>,
     simulatedUrl |->
        <<
           12395, 38306, 12377, 12427, 26368, 26032, 24773, 22577, 32, 45, 32, 87,
           105, 107, 105, 112, 101, 100, 105, 97, 10, 32, 32, 32, 85, 82, 76, 58,
           32, 104, 116, 116, 112, 115, 58, 47, 47, 106, 97, 46, 119, 105, 107, 105,
           112, 101, 100, 105, 97, 46, 111, 114, 103, 47, 119, 105, 107, 105, 47 >>,
     item |->
        <<
           49, 46, 32, 116, 10, 32, 32, 32, 85, 82, 76, 58, 32, 117, 10, 10 >> ]

\* encodeURIComponent: unreserved ASCII characters stay, every other code
\* point becomes the %XX of its UTF-8 bytes, and a surrogate without its
\* partner throws URIError
encodeURIComponent(s) ==
    LET unreserved == (65..90) \cup (97..122) \cup (48..57) \cup {45, 95, 46, 33, 126, 42, 39, 40, 41}
        hex(n) == IF n < 10 THEN 48 + n ELSE 55 + n
        pct(byte) == <<37, hex(byte \div 16), hex(byte % 16)>>
        utf8(cp) ==
            IF cp < 128 THEN pct(cp)
            ELSE IF cp < 2048 THEN pct(192 + (cp \div 64)) \o pct(128 + (cp % 64))
            ELSE IF cp < 65536
            THEN pct(224 + (cp \div 4096)) \o pct(128 + ((cp \div 64) % 64))
                 \o pct(128 + (cp % 64))
            ELSE pct(240 + (cp \div 262144)) \o pct(128 + ((cp \div 4096) % 64))
                 \o pct(128 + ((cp \div 64) % 64)) \o pct(128 + (cp % 64))
        high(u) == u >= 55296 /\ u <= 56319
        low(u) == u >= 56320 /\ u <= 57343
        RECURSIVE from(_)
        from(k) ==
            IF k > Len(s) THEN [ok |-> TRUE, text |-> <<>>]
            ELSE IF low(s[k]) \/ (high(s[k]) /\ (k = Len(s) \/ ~low(s[k + 1])))
            THEN [ok |-> FALSE, text |-> <<>>]
            ELSE LET pair == high(s[k])
                     rest == from(IF pair THEN k + 2 ELSE k + 1)
                     head == IF pair
                             THEN utf8((s[k] - 55296) * 1024 + (s[k + 1] - 56320) + 65536)
                             ELSE IF s[k] \in unreserved THEN <<s[k]>> ELSE utf8(s[k])
                 IN IF rest.ok THEN [ok |-> TRUE, text |-> head \o rest.text] ELSE rest
    IN from(1)

\* simulateSearch: the template text, of which the model keeps the header
\* and the first entry with its URL; it throws where encodeURIComponent does
simulateSearch(query) ==
    LET encoded == encodeURIComponent(query)
    IN IF encoded.ok
       THEN [ok |-> TRUE, source |-> "simulated",
             text |-> searchTexts.open \o query \o searchTexts.simulatedHead \o query
                      \o searchTexts.simulatedUrl \o encoded.text]
       ELSE [ok |-> FALSE, source |-> "simulated", text |-> <<>>]

\* the text both services' branches build from a response
searchResultText(query, outcome) ==
    IF outcome = "empty"
    THEN searchTexts.open \o query \o searchTexts.noResults
    ELSE searchTexts.open \o query \o searchTexts.resultsHead \o searchTexts.resultsAt
         \o searchTexts.item

\* performSerpApiSearch: without a key, simulateSearch inside the try block;
\* a rejection, a timeout or a throw inside the try block leads to the catch
\* block, which calls simulateSearch again, outside any try
performSerpApiSearch(query, env) ==
    LET tried == IF ~env.serpKey THEN simulateSearch(query)
                 ELSE IF env.serp \in {"items", "empty"}
                 THEN [ok |-> TRUE, source |-> "serpapi",
                       text |-> searchResultText(query, env.serp)]
                 ELSE [ok |-> FALSE, source |-> "serpapi", text |-> <<>>]
    IN IF tried.ok THEN tried ELSE simulateSearch(query)

\* performGoogleSearch: "return performSerpApiSearch(...)" hands on the
\* promise of the fallback, fulfilled or rejected, in both places
performGoogleSearch(query, env) ==
    IF env.googleKey /\ env.googleCseId /\ env.google \in {"items", "empty"}
    THEN [ok |-> TRUE, source |-> "google", text |-> searchResultText(query, env.google)]
    ELSE performSerpApiSearch(query, env)

\* the queries: "ai", a Japanese word, a word with a character outside the
\* basic plane, and the same cut after the first half of that character (as
\* query.substring(0, 200) of the tool cuts a long query)
searchQueries ==
    {<<97, 105>>, <<26368, 26032>>, <<26368, 26032, 55357, 56832>>, <<26368, 26032, 55357>>}

serviceOutcomes == {"items", "empty", "rejects", "timeout"}

searchCalls ==
    {[fn |-> "performGoogleSearch", query |-> q,
      env |-> [googleKey |-> gk, googleCseId |-> ge, google |-> g, serpKey |-> sk, serp |-> s]] :
        q \in searchQueries, gk \in BOOLEAN, ge \in BOOLEAN, g \in serviceOutcomes,
        sk \in BOOLEAN, s \in serviceOutcomes}

InitSearch ==
    /\ tictactoe = initialTictactoe
    /\ showGame = FALSE
    /\ othello = initialOthello
    /\ showOthello = FALSE
    /\ aiTimer = <<>>
    /\ othelloTimer = <<>>
    /\ clicks = 0
    /\ playerOrder = <<>>
    /\ aiOrder = <<>>
    /\ last = [op |-> "init", index |-> -1, removed |-> -1]
    /\ call \in searchCalls
    /\ result = noCall

CallPerformGoogleSearch ==
    /\ call.fn = "performGoogleSearch"
    /\ result = noCall
    /\ result' = [fn |-> "performGoogleSearch", value |-> performGoogleSearch(call.query, call.env)]
    /\ UNCHANGED <<tictactoe, showGame, othello, showOthello, aiTimer, othelloTimer, clicks,
                   playerOrder, aiOrder, last, call>>

SpecSearch == InitSearch /\ [][CallPerformGoogleSearch]_vars

(***************************************************************************)
(* Tic-tac-toe claims                                                      *)
(***************************************************************************)
marksOn(b, mark) == Cardinality({c \in Cells : b[c] = mark})

\* C1: in every reachable tic-tac-toe state the board holds at most 3 "O"
\* marks and at most 3 "X" marks.
C1_AtMostThreeMarks ==
    /\ marksOn(tictactoe.board, "O") <= 3
    /\ marksOn(tictactoe.board, "X") <= 3

\* both sides have moved at the cap: each has removed a mark and holds 3
C1_Witness ==
    /\ last.op = "handleCellClick"
    /\ last.removed # -1
    /\ marksOn(tictactoe.board, "O") = 3
    /\ marksOn(tictactoe.board, "X") = 3

\* C2: when a side with 3 marks moves, the mark removed is that side's
\* oldest surviving mark in placement order, for the Player's clicks and for
\* the Opponent's moves.
C2_RemovesOldestMark ==
    [][/\ (last'.op = "handleCellClick" /\ last'.removed # -1)
            => last'.removed = Head(playerOrder)
       /\ (last'.op = "aiMove" /\ last'.removed # -1)
            => last'.removed = Head(aiOrder)]_vars

\* C2, the Player's half alone
C2_PlayerRemovesOldestMark ==
    [][(last'.op = "handleCellClick" /\ last'.removed # -1)
            => last'.removed = Head(playerOrder)]_vars

\* C3: playerMarks is the number of "O" cells, aiMarks the number of "X"
\* cells, and both counters stay within 0..3.
C3_CountersMatchBoard ==
    /\ tictactoe.playerMarks = marksOn(tictactoe.board, "O")
    /\ tictactoe.aiMarks = marksOn(tictactoe.board, "X")
    /\ tictactoe.playerMarks \in 0..3
    /\ tictactoe.aiMarks \in 0..3

\* a move made at the cap has left the counter at 3
C3_Witness ==
    /\ last.op = "aiMove"
    /\ last.removed # -1
    /\ tictactoe.aiMarks = 3
    /\ tictactoe.playerMarks = 3

\* C4: handleCellClick(index) leaves the whole tic-tac-toe state unchanged
\* when the clicked cell is occupied, or it is not the Player's turn, or the
\* game is over; in every other case it places an "O" on the clicked cell.
C4_ClickRejectedOrPlaced ==
    [][\A index \in Cells :
          HandleCellClick(index) =>
              IF \/ tictactoe.board[index] # Null
                 \/ ~tictactoe.isPlayerTurn
                 \/ tictactoe.gameOver
              THEN tictactoe' = tictactoe
              ELSE tictactoe'.board[index] = "O"]_vars

\* a click was accepted and placed its "O"; the state it left (the
\* Opponent's move pending) is one in which every click is rejected
C4_Witness ==
    /\ showGame
    /\ last.op = "handleCellClick"
    /\ tictactoe.board[last.index] = "O"
    /\ ~tictactoe.isPlayerTurn
    /\ aiTimer # <<>>

\* resetGame runs only in toggleGame, when the panel is opened
resetStep == ~showGame /\ showGame'

\* C6: once gameOver is true, no click and no AI timer changes the board,
\* the winner or gameOver; only resetGame leaves the terminal state.
C6_TerminalUntilReset ==
    [][(tictactoe.gameOver /\ ~resetStep) =>
          /\ tictactoe'.board = tictactoe.board
          /\ tictactoe'.winner = tictactoe.winner
          /\ tictactoe'.gameOver]_vars

\* a finished game that is still shown: clicks are possible, no timer is armed
C6_Witness ==
    /\ showGame
    /\ tictactoe.gameOver
    /\ tictactoe.winner = "X"
    /\ tictactoe.isPlayerTurn
    /\ aiTimer = <<>>

\* the board a real click on cell index produces for a Player holding pm marks
clickBoard(b, pm, index) ==
    IF pm >= 3
    THEN [[b EXCEPT ![MinOf({c \in Cells : b[c] = "O"})] = Null] EXCEPT ![index] = "O"]
    ELSE [b EXCEPT ![index] = "O"]

\* the cells on which the Player's next click completes an "O" line
playerWinningClicks(b, pm) ==
    {index \in Cells :
        /\ b[index] = Null
        /\ \E i \in 1..Len(lines) :
              \A k \in 1..3 : clickBoard(b, pm, index)[lines[i][k]] = "O"}

\* the boards the Opponent can make by relocating one of its marks
relocatedBoards(b) ==
    {[b EXCEPT ![from] = Null, ![to] = "X"] :
        from \in {c \in Cells : b[c] = "X"}, to \in {c \in Cells : b[c] = Null}}

hasLine(b, mark) == \E i \in 1..Len(lines) : \A k \in 1..3 : b[lines[i][k]] = mark

\* C7: in the relocation phase, if the Player has an immediately winning
\* click and the Opponent has no winning relocation, the move aiMove applies
\* leaves the Player no immediately winning click, whenever some relocation
\* achieves that.
C7_RelocationBlocksThreat ==
    [][(/\ last'.op = "aiMove"
        /\ tictactoe.aiMarks = 3
        /\ playerWinningClicks(tictactoe.board, tictactoe.playerMarks) # {}
        /\ \A nb \in relocatedBoards(tictactoe.board) : ~hasLine(nb, "X")
        /\ \E nb \in relocatedBoards(tictactoe.board) :
              playerWinningClicks(nb, tictactoe.playerMarks) = {})
       => playerWinningClicks(tictactoe'.board, tictactoe'.playerMarks) = {}]_vars

\* the Opponent has relocated a mark onto the cell that was the Player's
\* winning click, and the Player now has none
C7_Witness ==
    /\ last.op = "aiMove"
    /\ last.removed # -1
    /\ ~tictactoe.gameOver
    /\ LET to == aiOrder[Len(aiOrder)]
           before == [tictactoe.board EXCEPT ![to] = Null, ![last.removed] = "X"]
       IN /\ to \in playerWinningClicks(before, tictactoe.playerMarks)
          /\ \A nb \in relocatedBoards(before) : ~hasLine(nb, "X")
    /\ playerWinningClicks(tictactoe.board, tictactoe.playerMarks) = {}

\* the boards a legal Opponent move can make: a placement below the cap, a
\* relocation at the cap
opponentMoves(b, am) ==
    IF am < 3 THEN {[b EXCEPT ![to] = "X"] : to \in {c \in Cells : b[c] = Null}}
    ELSE relocatedBoards(b)

\* C8: whenever it is the Opponent's turn and some legal Opponent move makes
\* three "X" in a line, aiMove makes such a move and leaves gameOver = true
\* and winner = "X".
C8_OpponentTakesWin ==
    [][(/\ last'.op = "aiMove"
        /\ \E nb \in opponentMoves(tictactoe.board, tictactoe.aiMarks) : hasLine(nb, "X"))
       => /\ tictactoe'.board \in opponentMoves(tictactoe.board, tictactoe.aiMarks)
          /\ hasLine(tictactoe'.board, "X")
          /\ tictactoe'.gameOver
          /\ tictactoe'.winner = "X"]_vars

\* the Opponent has won by relocating a mark
C8_Witness ==
    /\ last.op = "aiMove"
    /\ last.removed # -1
    /\ hasLine(tictactoe.board, "X")
    /\ tictactoe.gameOver
    /\ tictactoe.winner = "X"

\* the Opponent has won by placing its third mark
C8_WitnessPlacement ==
    /\ last.op = "aiMove"
    /\ last.removed = -1
    /\ hasLine(tictactoe.board, "X")
    /\ tictactoe.gameOver

\* C9: after resetGame the board holds exactly one mark, an "X" on one of
\* the cells 0, 2, 4, 6, 8, with aiMarks = 1, playerMarks = 0,
\* isPlayerTurn = true, gameOver = false and winner = null.
C9_ResetState ==
    (last.op = "toggleGame" /\ showGame) =>
        /\ \E c \in {0, 2, 4, 6, 8} :
              tictactoe.board = [i \in Cells |-> IF i = c THEN "X" ELSE Null]
        /\ tictactoe.aiMarks = 1
        /\ tictactoe.playerMarks = 0
        /\ tictactoe.isPlayerTurn
        /\ ~tictactoe.gameOver
        /\ tictactoe.winner = Null

\* the game has been reset with the opening mark on a corner; an Othello
\* game was opened before, so this is not the first thing that happened
C9_Witness ==
    /\ last.op = "toggleGame"
    /\ showGame
    /\ tictactoe.board[8] = "X"
    /\ othello # initialOthello

firstWonLine(b) ==
    MinOf({i \in 1..Len(lines) : \E m \in {"O", "X"} : \A k \in 1..3 : b[lines[i][k]] = m})

discsOn(b, colour) ==
    Cardinality({k \in 1..Len(squareSeq) : b[squareSeq[k][1]][squareSeq[k][2]] = colour})

\* the step is a move applied by placeDisc (Black) or by makeAIMove (White)
appliedMove == last'.op \in {"placeDisc", "makeAIMove"} /\ othello'.board # othello.board

\* the side that made the applied move
mover == IF last'.op = "placeDisc" THEN "black" ELSE "white"

canMove(b, side) == \E row \in Size, col \in Size :
                       b[row][col] = "" /\ getFlippedDiscs(b, row, col, side) # <<>>

\* C11: every applied Othello move (a successful placeDisc by Black, a disc
\* placement by makeAIMove for White) increases blackCount + whiteCount by
\* exactly 1.
C11_MoveAddsOneDisc ==
    [][appliedMove =>
          othello'.blackCount + othello'.whiteCount
             = othello.blackCount + othello.whiteCount + 1]_vars

\* White has answered Black's first move, turning at least one disc
C11_Witness ==
    /\ last.op = "makeAIMove"
    /\ last.index # -1
    /\ othello.blackCount + othello.whiteCount = 6
    /\ othello.whiteCount >= 3

\* C12: in every reachable Othello state blackCount is the number of black
\* cells and whiteCount the number of white cells, also in the states the
\* pass and game-over branches of makeAIMove set.
C12_CountsMatchBoard ==
    /\ othello.blackCount = discsOn(othello.board, "black")
    /\ othello.whiteCount = discsOn(othello.board, "white")
    /\ result.fn = "makeAIMove" =>
          \A o \in result.value :
             /\ o.blackCount = discsOn(o.board, "black")
             /\ o.whiteCount = discsOn(o.board, "white")

\* makeAIMove called on a board where White has no move and Black has one:
\* its pass branch sets a state without placing a disc
C12_Witness ==
    /\ result.fn = "makeAIMove"
    /\ ~othello.gameOver
    /\ ~canMove(othello.board, "white")
    /\ canMove(othello.board, "black")
    /\ othello.blackCount + othello.whiteCount > 4
    /\ \E o \in result.value :
          o.board = othello.board /\ o.skipTurn /\ o.currentPlayer = "black"

\* C13: after initOthelloBoard, gameOver is true exactly when neither side
\* has a legal move on the board; once gameOver is true no placeDisc call
\* and no AI timer changes the board.
C13_GameOverIffNoMoves ==
    [][/\ othello' # initialOthello =>
             (othello'.gameOver <=>
                 (~canMove(othello'.board, "black") /\ ~canMove(othello'.board, "white")))
       /\ (othello.gameOver /\ last'.op \in {"placeDisc", "makeAIMove"})
             => othello'.board = othello.board
       /\ (othello'.gameOver /\ result'.fn = "placeDisc")
             => result'.value = othello'
       /\ (othello'.gameOver /\ result'.fn = "makeAIMove")
             => result'.value = {othello'}]_vars

\* a game that ended with empty cells left, and a placeDisc call on one of them
C13_Witness ==
    /\ othello.gameOver
    /\ othello.blackCount + othello.whiteCount < 36
    /\ othelloTimer = <<>>
    /\ result.fn = "placeDisc"
    /\ othello.board[call.row][call.col] = ""

\* C14: after an applied move by side S: if the other side has a legal move,
\* the turn goes to it with skipTurn false; else if S has one, S keeps the
\* turn with skipTurn true; else the game is over.  skipTurn is true only in
\* states of the second kind.
C14_TurnAfterMove ==
    [][/\ appliedMove =>
             LET b == othello'.board
                 other == opponentOf(mover)
             IN IF canMove(b, other)
                THEN othello'.currentPlayer = other /\ ~othello'.skipTurn
                ELSE IF canMove(b, mover)
                THEN othello'.currentPlayer = mover /\ othello'.skipTurn
                ELSE othello'.gameOver
       /\ othello'.skipTurn =>
             /\ ~othello'.gameOver
             /\ ~canMove(othello'.board, opponentOf(othello'.currentPlayer))
             /\ canMove(othello'.board, othello'.currentPlayer)]_vars

\* Black has moved and White has no reply: Black keeps the turn
C14_Witness ==
    /\ last.op = "placeDisc"
    /\ othello.skipTurn
    /\ othello.currentPlayer = "black"
    /\ othelloTimer = <<>>

\* White has moved and Black has no reply: White keeps the turn, timer armed
C14_WitnessWhite ==
    /\ last.op = "makeAIMove"
    /\ othello.skipTurn
    /\ othello.currentPlayer = "white"
    /\ othelloTimer # <<>>

freshBoard ==
    [r \in Size |-> [c \in Size |->
        IF <<r, c>> \in {<<2, 2>>, <<3, 3>>} THEN "white"
        ELSE IF <<r, c>> \in {<<2, 3>>, <<3, 2>>} THEN "black"
        ELSE ""]]

\* C16 as claimed: on the freshly initialised board Black's placement at
\* (1,3) is a legal move, and applying it raises blackCount by 1 plus the
\* number of flipped discs and lowers whiteCount by that number.
C16_OpeningAt13 ==
    othello.board = freshBoard =>
        /\ inSeq(<<1, 3>>, findLegalMoves(othello.board, "black"))
        /\ (result.fn = "placeDisc" /\ call.row = 1 /\ call.col = 3) =>
              LET n == Len(getFlippedDiscs(othello.board, 1, 3, "black"))
              IN /\ n >= 1
                 /\ result.value.blackCount = othello.blackCount + 1 + n
                 /\ result.value.whiteCount = othello.whiteCount - n

\* C16 as the code has it: on the freshly initialised board Black's legal
\* moves are (1,2), (2,1), (3,4) and (4,3); (1,3) is not one of them and
\* placeDisc(1,3) changes nothing; applying a legal one raises blackCount by 1
\* plus the number of flipped discs and lowers whiteCount by that number.
C16_OpeningMoves ==
    othello.board = freshBoard =>
        /\ findLegalMoves(othello.board, "black") = << <<1, 2>>, <<2, 1>>, <<3, 4>>, <<4, 3>> >>
        /\ result.fn = "placeDisc" =>
              LET n == Len(getFlippedDiscs(othello.board, call.row, call.col, "black"))
              IN IF <<call.row, call.col>> \in {<<1, 2>>, <<2, 1>>, <<3, 4>>, <<4, 3>>}
                 THEN /\ n >= 1
                      /\ result.value.blackCount = othello.blackCount + 1 + n
                      /\ result.value.whiteCount = othello.whiteCount - n
                      /\ result.value.blackCount = discsOn(result.value.board, "black")
                      /\ result.value.whiteCount = discsOn(result.value.board, "white")
                 ELSE result.value = othello

\* placeDisc(1,2) on the fresh board: the white disc at (2,2) is turned
C16_Witness ==
    /\ othello.board = freshBoard
    /\ othello.blackCount = 2 /\ othello.whiteCount = 2
    /\ result.fn = "placeDisc"
    /\ call.row = 1 /\ call.col = 2
    /\ result.value.board[2][2] = "black"
    /\ result.value.blackCount = 4
    /\ result.value.whiteCount = 1

\* the cell makeAIMove played in the step, from the history
playedCell == <<last'.index \div 6, last'.index % 6>>

\* the step is a disc placement by makeAIMove
whiteMoved == last'.op = "makeAIMove" /\ last'.index # -1 /\ othello'.board # othello.board

whiteCorners(b) == {sq \in cornerCells :
                      b[sq[1]][sq[2]] = "" /\ getFlippedDiscs(b, sq[1], sq[2], "white") # <<>>}

\* C17: whenever White has a legal move on a corner, the cell makeAIMove
\* plays is a corner.
C17_CornerFirst ==
    [][(whiteMoved /\ whiteCorners(othello.board) # {})
          => /\ playedCell \in whiteCorners(othello.board)
             /\ othello'.board[playedCell[1]][playedCell[2]] = "white"]_vars

\* White has just taken the corner (0,0) while holding no other corner
C17_Witness ==
    /\ last.op = "makeAIMove"
    /\ last.index = 0
    /\ othello.board[0][0] = "white"
    /\ othello.board[0][5] # "white" /\ othello.board[5][0] # "white"
    /\ othello.board[5][5] # "white"

freshState ==
    [board |-> freshBoard, currentPlayer |-> "black", gameOver |-> FALSE,
     blackCount |-> 2, whiteCount |-> 2, skipTurn |-> FALSE]

\* C18: every initOthelloBoard produces the state with the four centre discs
\* (White on (2,2) and (3,3), Black on (2,3) and (3,2)), Black to move,
\* counts 2 and 2, no gameOver, no skipTurn, whatever the state before; a
\* visible Othello game never starts from another board.
C18_FreshStart ==
    [][/\ (~showOthello /\ showOthello') => othello' = freshState
       /\ othello' # othello =>
             \/ ~showOthello /\ showOthello'
             \/ showOthello /\ showOthello' /\ last'.op \in {"placeDisc", "makeAIMove"}
       /\ showOthello' => othello' # initialOthello]_vars

\* the panel has been opened and shows the fresh state
C18_Witness ==
    /\ showOthello
    /\ last.op = "toggleOthello"
    /\ othello = freshState
    /\ clicks = 0
    /\ othelloTimer = <<>>

\* evaluate(board after White's move, White) + 30 when Black has no reply,
\* else the least evaluate(board after the reply, White) over Black's replies
replyScore(b, move) ==
    LET afterWhite == placeAndFlip(b, move[1], move[2], "white")
        replies == {sq \in Size \X Size :
                       /\ afterWhite[sq[1]][sq[2]] = ""
                       /\ getFlippedDiscs(afterWhite, sq[1], sq[2], "black") # <<>>}
        scores == {othelloEvaluateBoard(placeAndFlip(afterWhite, sq[1], sq[2], "black"), "white") :
                      sq \in replies}
    IN IF replies = {} THEN othelloEvaluateBoard(afterWhite, "white") + 30
       ELSE CHOOSE x \in scores : \A y \in scores : x <= y

\* C20: when White has no legal corner move, makeAIMove plays a legal move
\* of maximal score, the score being evaluate(board after White's move) + 30
\* if Black then has no reply and otherwise the minimum over Black's replies
\* of evaluate(board after the reply); among moves of equal score the first
\* in findLegalMoves order is played.
C20_BestWorstCase ==
    [][(whiteMoved /\ whiteCorners(othello.board) = {}) =>
          LET legalMoves == findLegalMoves(othello.board, "white")
          IN \E k \in 1..Len(legalMoves) :
                /\ legalMoves[k] = playedCell
                /\ \A j \in 1..Len(legalMoves) :
                      replyScore(othello.board, legalMoves[j])
                         <= replyScore(othello.board, playedCell)
                /\ \A j \in 1..(k - 1) :
                      replyScore(othello.board, legalMoves[j])
                         < replyScore(othello.board, playedCell)
                /\ othello'.board = placeAndFlip(othello.board, playedCell[1], playedCell[2], "white")]_vars

\* White has played a non-corner move that was not the first legal one
C20_Witness ==
    /\ last.op = "makeAIMove"
    /\ last.index \notin {-1, 0, 5, 30, 35}
    /\ othello.board[last.index \div 6][last.index % 6] = "white"
    /\ \E sq \in Size \X Size :
          /\ sq[1] * 6 + sq[2] < last.index
          /\ othello.board[sq[1]][sq[2]] = ""
          /\ \E k \in 1..Len(directions) :
                /\ onBoard(sq[1] + directions[k][1], sq[2] + directions[k][2])
                /\ othello.board[sq[1] + directions[k][1]][sq[2] + directions[k][2]] = "black"

RECURSIVE matrixSum(_)
matrixSum(S) ==
    IF S = {} THEN 0
    ELSE LET sq == CHOOSE x \in S : TRUE
         IN positionValue[sq[1] + 1][sq[2] + 1] + matrixSum(S \ {sq})

cellsOf(b, side) == {sq \in Size \X Size : b[sq[1]][sq[2]] = side}

movesOf(b, side) == {sq \in Size \X Size :
                       b[sq[1]][sq[2]] = "" /\ getFlippedDiscs(b, sq[1], sq[2], side) # <<>>}

\* the value C21 gives the evaluator of a board for a side
phaseScore(b, side) ==
    LET other == opponentOf(side)
        discDiff == Cardinality(cellsOf(b, side)) - Cardinality(cellsOf(b, other))
        positional == matrixSum(cellsOf(b, side)) - matrixSum(cellsOf(b, other))
    IN IF Cardinality(cellsOf(b, side)) + Cardinality(cellsOf(b, other)) >= 30
       THEN positional + 10 * discDiff
       ELSE positional
            + 5 * (Cardinality(movesOf(b, side)) - Cardinality(movesOf(b, other)))
            + 2 * discDiff

\* C21: on every board of a game the evaluator is the positional sum plus
\* 10 x disc difference from 30 discs on, and plus 5 x mobility difference
\* + 2 x disc difference below 30 discs; evaluate(board, White) is
\* -evaluate(board, Black).
C21_PhaseTerm ==
    (call = noCall /\ othello # initialOthello) =>
        /\ \A side \in {"black", "white"} :
              othelloEvaluateBoard(othello.board, side) = phaseScore(othello.board, side)
        /\ othelloEvaluateBoard(othello.board, "white")
              = -othelloEvaluateBoard(othello.board, "black")

\* a board of exactly 30 discs left by makeAIMove, on which the two phase
\* terms differ
C21_Witness ==
    /\ last.op = "makeAIMove"
    /\ othello.blackCount + othello.whiteCount = 30
    /\ othello.blackCount # othello.whiteCount
    /\ 10 * (othello.whiteCount - othello.blackCount)
          # 5 * (Cardinality(movesOf(othello.board, "white"))
                   - Cardinality(movesOf(othello.board, "black")))
            + 2 * (othello.whiteCount - othello.blackCount)

(***************************************************************************)
(* Tic-tac-toe claims about the search                                     *)
(***************************************************************************)
\* a position of the search: the board and the two mark counts minimax
\* carries along
searchNode(b, am, pm) == [board |-> b, am |-> am, pm |-> pm]

\* the positions the loops of minimax try from a position, for the side to
\* move: placements below the cap, relocations at the cap
searchMoves(n, isMaximizing) ==
    IF isMaximizing
    THEN IF n.am < 3
         THEN {searchNode([n.board EXCEPT ![i] = "X"], n.am + 1, n.pm) :
                  i \in {c \in Cells : n.board[c] = Null}}
         ELSE {searchNode([n.board EXCEPT ![p[1]] = Null, ![p[2]] = "X"], n.am, n.pm) :
                  p \in {q \in Cells \X Cells : n.board[q[1]] = "X" /\ n.board[q[2]] = Null}}
    ELSE IF n.pm < 3
         THEN {searchNode([n.board EXCEPT ![i] = "O"], n.am, n.pm + 1) :
                  i \in {c \in Cells : n.board[c] = Null}}
         ELSE {searchNode([n.board EXCEPT ![p[1]] = Null, ![p[2]] = "O"], n.am, n.pm) :
                  p \in {q \in Cells \X Cells : n.board[q[1]] = "O" /\ n.board[q[2]] = Null}}

\* the positions of the search tree ply plies below the root (the Opponent
\* moves at the odd plies); a won position has no successors
RECURSIVE nodesAt(_, _)
nodesAt(root, ply) ==
    IF ply = 0 THEN {root}
    ELSE UNION {searchMoves(n, ply % 2 = 1) :
                   n \in {m \in nodesAt(root, ply - 1) : checkWinner(m.board) = Null}}

\* the positions ply plies below the root in which mark has a line
wonAt(root, ply, mark) == {n \in nodesAt(root, ply) : checkWinner(n.board) = mark}

\* the score minimax gives a won position ply plies below the root of a
\* search started at rootDepth: each recursive call passes depth - 1
terminalScore(n, rootDepth, ply) == evaluateBoard(n.board, rootDepth - ply)

\* the root of the search aiMove starts when the timer fires
searchRoot == searchNode(aiTimer[1], tictactoe.aiMarks, tictactoe.playerMarks)

\* aiMove calls findBestMove only below the cap
searching == aiTimer # <<>> /\ tictactoe.aiMarks < 3

\* C22: in every search the engine runs, an Opponent win one ply below the
\* root is scored strictly higher than an Opponent win three plies below,
\* and a Player win four plies below strictly higher than a Player win two
\* plies below.
C22_FasterWinScoresHigher ==
    searching =>
        LET rootDepth == useDepth(tictactoe.aiMarks)
        IN /\ \A n1 \in wonAt(searchRoot, 1, "X") : \A n3 \in wonAt(searchRoot, 3, "X") :
                 terminalScore(n1, rootDepth, 1) > terminalScore(n3, rootDepth, 3)
           /\ \A n2 \in wonAt(searchRoot, 2, "O") : \A n4 \in wonAt(searchRoot, 4, "O") :
                 terminalScore(n4, rootDepth, 4) > terminalScore(n2, rootDepth, 2)

relocationScore(b, pm, from, to) ==
    minimax([b EXCEPT ![from] = Null, ![to] = "X"], useDepth(3) - 1, FALSE,
            NegInfinity, Infinity, 3, pm)[1]

\* the cell that received the Opponent's mark in the step
placedCell == CHOOSE c \in Cells : tictactoe.board[c] = Null /\ tictactoe'.board[c] = "X"

\* C24: when the Opponent moves with 3 marks and has neither a winning
\* relocation nor a Player threat to block, the relocation applied has the
\* highest search score over all pairs (own mark, empty cell).
C24_RelocationIsSearchBest ==
    [][(/\ last'.op = "aiMove"
        /\ tictactoe'.board # tictactoe.board
        /\ tictactoe.aiMarks >= 3
        /\ winningRelocations(tictactoe.board) = {}
        /\ completingCells(tictactoe.board, "O") = {})
          => \A p \in {q \in Cells \X Cells :
                          tictactoe.board[q[1]] = "X" /\ tictactoe.board[q[2]] = Null} :
                relocationScore(tictactoe.board, tictactoe.playerMarks, p[1], p[2])
                   <= relocationScore(tictactoe.board, tictactoe.playerMarks,
                                      last'.removed, placedCell)]_vars

\* the state a click on cell c leaves
afterClick(t, c) == handleCellClick(t, c)[1]

\* the states the Opponent's move can leave after a click on cell c
answers(t, c) == aiMove(afterClick(t, c), afterClick(t, c).board)

marksBoard(xs, os) ==
    [c \in Cells |-> IF c \in xs THEN "X" ELSE IF c \in os THEN "O" ELSE Null]

\* two positions with both sides at the cap and no line
cycleA == marksBoard({5, 6, 8}, {3, 4, 7})
cycleB == marksBoard({1, 6, 8}, {2, 4, 7})

\* the Player is to move on board b in a running game
playingAt(b) ==
    showGame /\ ~tictactoe.gameOver /\ tictactoe.isPlayerTurn /\ tictactoe.board = b

\* a click on cell c is applied and forms no line, and the Opponent's move
\* answers it, whatever it draws, with board b, no line, the Player to move
clickLeadsTo(c, b) ==
    /\ handleCellClick(tictactoe, c)[2]
    /\ ~afterClick(tictactoe, c).gameOver
    /\ ~afterClick(tictactoe, c).isPlayerTurn
    /\ \A t2 \in answers(tictactoe, c) :
          t2.board = b /\ ~t2.gameOver /\ t2.isPlayerTurn

\* C25: gameOver is set only together with a line and its winner (there is
\* no draw); while the game runs the Player always has an empty cell and
\* every click on one is applied (no move cap); and the game need not end:
\* from position cycleA the click on 2 is answered with cycleB, from cycleB
\* the click on 3 is answered with cycleA, with no line formed on the way,
\* so the play cycleA, cycleB, cycleA, ... goes on for ever.
C25_NeedNotEnd ==
    /\ tictactoe.gameOver =>
          tictactoe.winner \in {"O", "X"} /\ checkWinner(tictactoe.board) = tictactoe.winner
    /\ (showGame /\ ~tictactoe.gameOver /\ tictactoe.isPlayerTurn) =>
          /\ \E c \in Cells : tictactoe.board[c] = Null
          /\ \A c \in Cells : tictactoe.board[c] = Null => handleCellClick(tictactoe, c)[2]
    /\ playingAt(cycleA) => clickLeadsTo(2, cycleB)
    /\ playingAt(cycleB) => clickLeadsTo(3, cycleA)

\* cycleA reached from cycleB: the Opponent has just answered the click on 3
\* by moving its mark from 1 to 5
C25_Witness ==
    /\ playingAt(cycleA)
    /\ last.op = "aiMove"
    /\ last.removed = 1
    /\ Len(playerOrder) = 3 /\ playerOrder[3] = 3

(***************************************************************************)
(* Chat backend claims                                                     *)
(***************************************************************************)
\* the model the handler calls for a request
calledModel(req) == IF req.model \in AVAILABLE_MODELS THEN req.model ELSE "gpt-4o"

\* the request cannot be read: no JSON, no object, or no messages
unreadable(req) == req.body # "object" \/ ~req.hasMessages

\* the language-model call made for a readable request fails
modelFails(req) ==
    IF calledModel(req) \in {"claude-3-5-sonnet", "claude-3-haiku"}
    THEN ~req.anthropicKey \/ req.anthropic = "error"
    ELSE req.openai = "error"

answered == result.fn = "POST"

keywordEffect(isTicTacToe) ==
    /\ IF isTicTacToe THEN showGame' = ~showGame ELSE showOthello' = ~showOthello
    /\ call'.input = <<>>
    /\ call'.messages = call.messages
    /\ result' = noCall

\* C27 as stated: the keywords include "tic tac toe" and "othello"; submitting any
\* of them, in any case, toggles the game, clears the input, appends no message
\* and issues no request
C27_KeywordsAsStated ==
    [][/\ (toLowerCase(call.input) \in {<<12510, 12523, 12496, 12484>>,
                                       <<116, 105, 99, 32, 116, 97, 99, 32, 116, 111, 101>>}
           /\ SendMessage => keywordEffect(TRUE))
       /\ (toLowerCase(call.input) \in {<<12458, 12475, 12525>>,
                                       <<111, 116, 104, 101, 108, 108, 111>>}
           /\ SendMessage => keywordEffect(FALSE))]_vars

\* C27: submitting marubatsu (katakana or hiragana) or U+3007 U+00D7 toggles
\* tic-tac-toe, submitting osero (katakana or hiragana) or ribaashi toggles
\* Othello; the input is cleared, no message is appended and no request is
\* issued.  "tic tac toe" and "othello", in any case, are sent as chat messages.
C27_KeywordToggles ==
    [][/\ (toLowerCase(call.input) \in {<<12510, 12523, 12496, 12484>>,
                                        <<12414, 12427, 12400, 12388>>, <<12295, 215>>}
           /\ SendMessage => keywordEffect(TRUE))
       /\ (toLowerCase(call.input) \in {<<12458, 12475, 12525>>, <<12362, 12379, 12429>>,
                                        <<12522, 12496, 12540, 12471>>}
           /\ SendMessage => keywordEffect(FALSE))
       /\ (toLowerCase(call.input) \in {<<116, 105, 99, 32, 116, 97, 99, 32, 116, 111, 101>>,
                                        <<111, 116, 104, 101, 108, 108, 111>>}
           /\ SendMessage
           => /\ showGame' = showGame /\ showOthello' = showOthello
              /\ Len(call'.messages) = Len(call.messages) + 1
              /\ result' # noCall)]_vars

\* ribaashi was submitted while a chat exchange was on record: Othello is shown,
\* the input is empty, the two messages are still there, nothing is in flight
C27_Witness ==
    /\ last.op = "toggleOthello"
    /\ showOthello
    /\ call.input = <<>>
    /\ Len(call.messages) = 3
    /\ result = noCall

(***************************************************************************)
(* Othello claims about the frame of a move and the end of a game          *)
(***************************************************************************)
\* the cell an applied move was given
movedRow == last'.index \div 6

movedCol == last'.index % 6

\* <<r, c>> lies on a straight line from <<row, col>>, every cell of the line
\* up to it and beyond it is a disc of the opponent of side, until a disc of
\* side ends the line
onCapturedRun(b, row, col, r, c, side) ==
    \E dx \in -1..1, dy \in -1..1, n \in 1..4, m \in 2..5 :
       /\ n < m
       /\ r = row + n * dx /\ c = col + n * dy
       /\ row + m * dx \in Size /\ col + m * dy \in Size
       /\ b[row + m * dx][col + m * dy] = side
       /\ \A j \in 1..(m - 1) : b[row + j * dx][col + j * dy] = opponentOf(side)

\* C28: an applied move by side S turns the placed cell from empty to S and
\* the cells of getFlippedDiscs from the opponent's colour to S, each of them
\* on a straight contiguous run of opponent discs between the placed cell and
\* another disc of S; every other cell keeps its content, and outside
\* initOthelloBoard no occupied cell becomes empty.
C28_MoveFrame ==
    [][/\ appliedMove =>
             LET b == othello.board
                 flippedDiscs == getFlippedDiscs(b, movedRow, movedCol, mover)
             IN  /\ b[movedRow][movedCol] = ""
                 /\ othello'.board[movedRow][movedCol] = mover
                 /\ \A r \in Size, c \in Size :
                       IF <<r, c>> = <<movedRow, movedCol>> THEN TRUE
                       ELSE IF inSeq(<<r, c>>, flippedDiscs)
                       THEN /\ b[r][c] = opponentOf(mover)
                            /\ othello'.board[r][c] = mover
                            /\ onCapturedRun(b, movedRow, movedCol, r, c, mover)
                       ELSE othello'.board[r][c] = b[r][c]
       /\ showOthello' = showOthello =>
             \A r \in Size, c \in Size :
                othello.board[r][c] # "" => othello'.board[r][c] # ""]_vars

\* White's second move has just turned at least two black discs: White held
\* at most two of the seven discs before it and holds five of the eight now
C28_Witness ==
    /\ last.op = "makeAIMove"
    /\ last.index # -1
    /\ othello.board[last.index \div 6][last.index % 6] = "white"
    /\ othello.blackCount + othello.whiteCount = 8
    /\ othello.whiteCount >= 5

\* C29: in every state after initOthelloBoard in which the game is not over,
\* the side named by currentPlayer has a legal move; hence a makeAIMove run by
\* the timer always finds a legal move for White and plays it, never taking
\* the branch for "White has no legal move".
C29_MoverCanMove ==
    [][/\ (othello'.board # emptyOthelloBoard /\ ~othello'.gameOver)
             => canMove(othello'.board, othello'.currentPlayer)
       /\ othelloTimer # <<>> =>
             /\ Len(findLegalMoves(othelloTimer[1], "white")) > 0
             /\ (last'.op = "makeAIMove" /\ othello' # othello) => last'.index # -1]_vars

\* White has moved and Black cannot answer: the game goes on, the turn stays
\* with White, who has a legal move, and the timer holds the board for it
C29_Witness ==
    /\ last.op = "makeAIMove"
    /\ ~othello.gameOver
    /\ othello.currentPlayer = "white"
    /\ ~canMove(othello.board, "black")
    /\ canMove(othello.board, "white")
    /\ othelloTimer = <<othello.board>>

emptyCells(b) == discsOn(b, "")

\* C30: every Othello game ends.  initOthelloBoard leaves 32 empty cells, each
\* applied move fills exactly one of them and nothing else changes the board,
\* so at most 32 moves are applied in a game (Black's among them: clicks);
\* and while the game stays visible, with the timer firing and the human
\* playing whenever it is Black's turn, gameOver is eventually reached.
C30_GameEnds ==
    /\ [][/\ (showOthello' /\ ~showOthello) => emptyCells(othello'.board) = 32
          /\ appliedMove =>
                /\ emptyCells(othello.board) >= 1
                /\ emptyCells(othello'.board) = emptyCells(othello.board) - 1
          /\ (~appliedMove /\ showOthello' = showOthello) => othello'.board = othello.board
          /\ othello'.board # emptyOthelloBoard =>
                clicks' <= 32 - emptyCells(othello'.board)]_vars
    /\ []([]showOthello => <>othello.gameOver)

\* a game has ended with the panel still open
C30_Witness ==
    /\ showOthello
    /\ othello.gameOver
    /\ last.op \in {"placeDisc", "makeAIMove"}
    /\ clicks >= 2
    /\ emptyCells(othello.board) <= 32 - clicks

\* White is to move in the visible game
whiteToMove == showOthello /\ ~othello.gameOver /\ othello.currentPlayer = "white"

\* C31: whenever the Othello game is visible, not over and White is to move,
\* the timer is armed for the current board, no click of the human applies a
\* move, and, unless the panel is closed, a move of White is applied: the next
\* disc on the board (the number of discs changes from even to odd or back)
\* is put there by makeAIMove.  This includes the state after a White move
\* that made Black pass (skipTurn).
C31_WhiteMoves ==
    /\ [][/\ whiteToMove' => othelloTimer' = <<othello'.board>>
          /\ (whiteToMove /\ othello'.board # othello.board /\ showOthello')
                => /\ last'.op = "makeAIMove"
                   /\ discsOn(othello'.board, "") = discsOn(othello.board, "") - 1]_vars
    /\ \A parity \in 0..1 :
          (whiteToMove /\ discsOn(othello.board, "") % 2 = parity)
             ~> (~showOthello \/ (/\ last.op = "makeAIMove"
                                  /\ discsOn(othello.board, "") % 2 = 1 - parity))

\* White has just moved and has moved more often than Black in this game: a
\* move of White that made Black pass was followed by another move of White
C31_Witness ==
    /\ showOthello
    /\ last.op = "makeAIMove"
    /\ last.index # -1
    /\ othello.blackCount + othello.whiteCount - 4 - clicks > clicks

(***************************************************************************)
(* Tic-tac-toe claims about the course of a game                           *)
(***************************************************************************)
\* C32: in every reachable tic-tac-toe state gameOver is true exactly when
\* the board holds a completed line, and then winner is checkWinner(board),
\* the mark of that line; no move, the Opponent's block and its relocation
\* to the centre or to a random cell included, leaves a line on the board
\* with gameOver false, and the board never holds an "O" line and an "X"
\* line at once.
C32_GameOverIffLine ==
    /\ tictactoe.gameOver <=>
          (hasLine(tictactoe.board, "O") \/ hasLine(tictactoe.board, "X"))
    /\ tictactoe.gameOver <=> checkWinner(tictactoe.board) # Null
    /\ tictactoe.gameOver =>
          /\ tictactoe.winner = checkWinner(tictactoe.board)
          /\ hasLine(tictactoe.board, tictactoe.winner)
    /\ ~(hasLine(tictactoe.board, "O") /\ hasLine(tictactoe.board, "X"))

\* the Opponent has relocated a mark to a cell other than the centre, the
\* Player held two marks of one line, and the game goes on
C32_Witness ==
    /\ last.op = "aiMove"
    /\ last.removed # -1
    /\ tictactoe.board[4] # "X"
    /\ ~tictactoe.gameOver
    /\ \E i \in 1..Len(lines) :
          Cardinality({k \in 1..3 : tictactoe.board[lines[i][k]] = "O"}) = 2

\* the step is a click that handleCellClick accepted
acceptedClick == last'.op = "handleCellClick" /\ tictactoe' # tictactoe

\* the step is a move applied by aiMove
opponentMove == last'.op = "aiMove" /\ tictactoe' # tictactoe

\* C33: Player and Opponent strictly alternate.  A click is accepted only
\* after resetGame's opening mark or after an Opponent move, the handler that
\* updated the game last; if it does not end the game it hands the turn to
\* the Opponent and arms the timer for the new board.  An Opponent move is
\* applied only after an accepted click, returns the turn and leaves no timer
\* armed, so the timer applies one Opponent move per Player move; and unless
\* the panel is closed, that Opponent move does come.
C33_StrictAlternation ==
    /\ [][/\ acceptedClick =>
                /\ last.op \in {"toggleGame", "aiMove"}
                /\ tictactoe.isPlayerTurn
                /\ IF tictactoe'.gameOver THEN aiTimer' = <<>>
                   ELSE ~tictactoe'.isPlayerTurn /\ aiTimer' = <<tictactoe'.board>>
          /\ opponentMove =>
                /\ last.op = "handleCellClick"
                /\ ~tictactoe.isPlayerTurn
                /\ tictactoe'.isPlayerTurn
                /\ aiTimer' = <<>>
          /\ aiTimer' # <<>> => showGame' /\ ~tictactoe'.isPlayerTurn]_vars
    /\ (showGame /\ ~tictactoe.gameOver /\ ~tictactoe.isPlayerTurn)
          ~> (~showGame \/ (last.op = "aiMove" /\ tictactoe.isPlayerTurn))

\* both sides hold three marks, the Opponent has just answered a relocating
\* click with a relocation, and the turn is back with the Player
C33_Witness ==
    /\ showGame
    /\ last.op = "aiMove"
    /\ last.removed # -1
    /\ Len(playerOrder) = 3 /\ Len(aiOrder) = 3
    /\ tictactoe.isPlayerTurn
    /\ ~tictactoe.gameOver
    /\ aiTimer = <<>>

(***************************************************************************)
(* Claims about the two panels                                             *)
(***************************************************************************)
\* C34: a hidden game has no timer armed, so closing a panel (by its own
\* toggle or by opening the other game) while the Opponent's move is pending
\* cancels the timer; the state of a hidden game does not change until it is
\* opened again; opening it installs the reset state with no timer armed; and
\* an armed timer always holds the current board of its game, so no move
\* computed for an earlier game is applied after reopening.
C34_ClosingCancelsTimer ==
    [][/\ ~showGame' => aiTimer' = <<>>
       /\ ~showOthello' => othelloTimer' = <<>>
       /\ (~showGame /\ ~showGame') => tictactoe' = tictactoe
       /\ (~showOthello /\ ~showOthello') => othello' = othello
       /\ (~showGame /\ showGame') =>
             /\ \E firstMove \in {0, 2, 4, 6, 8} : tictactoe' = resetGame(firstMove)
             /\ aiTimer' = <<>>
       /\ (~showOthello /\ showOthello') =>
             /\ othello' = initOthelloBoard
             /\ othelloTimer' = <<>>
       /\ aiTimer' # <<>> => aiTimer' = <<tictactoe'.board>>
       /\ othelloTimer' # <<>> => othelloTimer' = <<othello'.board>>
       /\ (last'.op = "aiMove" /\ tictactoe' # tictactoe) => last.op = "handleCellClick"
       /\ (last'.op = "makeAIMove" /\ othello' # othello)
             => last.op \in {"placeDisc", "makeAIMove"}]_vars

\* the tic-tac-toe panel was closed by opening Othello while the Opponent's
\* answer to a click was pending: the game is hidden with the Opponent to
\* move, and no timer is armed
C34_Witness ==
    /\ last.op = "toggleOthello"
    /\ showOthello
    /\ ~showGame
    /\ ~tictactoe.isPlayerTurn
    /\ ~tictactoe.gameOver
    /\ tictactoe.playerMarks = 1
    /\ aiTimer = <<>>

\* C35: whatever buttons are pressed, in whatever order and in whatever state
\* of the two games, the tic-tac-toe panel and the Othello panel are never
\* both shown.
C35_OnePanel == ~(showGame /\ showOthello)

\* tic-tac-toe has just been opened over an Othello game in which Black had
\* played and White's answer was pending: Othello is hidden, its game kept
C35_Witness ==
    /\ last.op = "toggleGame"
    /\ showGame
    /\ ~showOthello
    /\ clicks = 1
    /\ othello.currentPlayer = "white"

(***************************************************************************)
(* Tic-tac-toe claims about the search and the rules of the game           *)
(***************************************************************************)
\* the positions a real click of the Player leads to from a position of the
\* search: handleCellClick's board for each empty cell
realPlayerMoves(n) ==
    {searchNode(clickBoard(n.board, n.pm, i), n.am, nextMarks(n.pm)) :
        i \in {c \in Cells : n.board[c] = Null}}

\* C36: whenever the Opponent is about to move, (1) below the cap, at every
\* position of the search in which the Player is to move (one and three
\* plies below the root), the Player moves the search tries are exactly the
\* positions handleCellClick produces, with the same mark removed when the
\* Player holds 3 marks; (2) every cell the block check (of findBestMove
\* below the cap, of aiMove at the cap when no relocation wins) treats as a
\* Player threat is a cell on which a real click completes a Player line.
C36_SimulatedPlayerMoves ==
    aiTimer # <<>> =>
        /\ tictactoe.aiMarks < 3 =>
              \A ply \in {1, 3} :
                 \A n \in nodesAt(searchRoot, ply) :
                    checkWinner(n.board) = Null
                       => searchMoves(n, FALSE) = realPlayerMoves(n)
        /\ (tictactoe.aiMarks < 3 \/ winningRelocations(aiTimer[1]) = {}) =>
              completingCells(aiTimer[1], "O")
                 \subseteq playerWinningClicks(aiTimer[1], tictactoe.playerMarks)

(***************************************************************************)
(* minimax as a pure function: called at the root (the Opponent to move,   *)
(* the full window) on every board without a line whose marks lie on the   *)
(* first MaxSearchCells cells, two or three of each side, with the mark    *)
(* counts of the board, at every depth up to MaxSearchDepth.               *)
(***************************************************************************)
MaxSearchCells == 6
MaxSearchDepth == 4

searchBoards ==
    {b \in allBoards :
        /\ \A c \in Cells : c >= MaxSearchCells => b[c] = Null
        /\ marksOn(b, "X") \in 2..3
        /\ marksOn(b, "O") \in 2..3
        /\ checkWinner(b) = Null}

InitMinimax ==
    /\ tictactoe = initialTictactoe
    /\ showGame = FALSE
    /\ othello = initialOthello
    /\ showOthello = FALSE
    /\ aiTimer = <<>>
    /\ othelloTimer = <<>>
    /\ clicks = 0
    /\ playerOrder = <<>>
    /\ aiOrder = <<>>
    /\ last = [op |-> "init", index |-> -1, removed |-> -1]
    /\ call \in {[fn |-> "minimax", board |-> b, depth |-> d,
                  aiMarks |-> marksOn(b, "X"), playerMarks |-> marksOn(b, "O")] :
                    b \in searchBoards, d \in 1..MaxSearchDepth}
    /\ result = noCall

CallMinimax ==
    /\ call.fn = "minimax"
    /\ result = noCall
    /\ result' = [fn |-> "minimax",
                  value |-> minimax(call.board, call.depth, TRUE, NegInfinity, Infinity,
                                    call.aiMarks, call.playerMarks)]
    /\ UNCHANGED <<tictactoe, showGame, othello, showOthello, aiTimer, othelloTimer, clicks,
                   playerOrder, aiOrder, last, call>>

SpecMinimax == InitMinimax /\ [][CallMinimax]_vars

\* the search without pruning: every move of the side to move is tried, in
\* the iteration order of the loops, and the first move of the best score is
\* kept; <<score, move>> with the move codes of minimax
RECURSIVE plainMinimax(_, _, _, _, _)
RECURSIVE plainLoop(_, _, _, _, _, _, _, _, _)

\* the loop over the moves cands[k..] of the side to move, <<from, to>> with
\* from = -1 for a placement, carrying the best score and move so far
plainLoop(b, depth, isMaximizing, am, pm, cands, k, bestScore, bestMove) ==
    IF k > Len(cands) THEN <<bestScore, bestMove>>
    ELSE LET mark == IF isMaximizing THEN "X" ELSE "O"
             from == cands[k][1]
             to == cands[k][2]
             child == IF from = -1 THEN [b EXCEPT ![to] = mark]
                      ELSE [b EXCEPT ![from] = Null, ![to] = mark]
             am2 == IF isMaximizing /\ from = -1 THEN am + 1 ELSE am
             pm2 == IF ~isMaximizing /\ from = -1 THEN pm + 1 ELSE pm
             score == plainMinimax(child, depth - 1, ~isMaximizing, am2, pm2)[1]
             better == IF isMaximizing THEN score > bestScore ELSE score < bestScore
             code == IF from # -1 /\ isMaximizing THEN to * 10 + from ELSE to
         IN IF better
            THEN plainLoop(b, depth, isMaximizing, am, pm, cands, k + 1, score, code)
            ELSE plainLoop(b, depth, isMaximizing, am, pm, cands, k + 1, bestScore, bestMove)

plainMinimax(b, depth, isMaximizing, am, pm) ==
    IF depth = 0 \/ checkWinner(b) # Null
    THEN <<evaluateBoard(b, depth), -1>>
    ELSE LET placing == (IF isMaximizing THEN am ELSE pm) < 3
             empties == emptyCellSeq(b)
             cands == IF placing
                      THEN [k \in 1..Len(empties) |-> <<-1, empties[k]>>]
                      ELSE relocationSeq(b, IF isMaximizing THEN "X" ELSE "O")
         IN plainLoop(b, depth, isMaximizing, am, pm, cands, 1,
                      IF isMaximizing THEN NegInfinity ELSE Infinity, -1)

\* C37: at the root, the score and the move the alpha-beta search returns
\* are those of the search without pruning, the move being the first one of
\* maximal score in iteration order.
C37_PruningKeepsResult ==
    result.fn = "minimax" =>
        result.value = plainMinimax(call.board, call.depth, TRUE,
                                    call.aiMarks, call.playerMarks)

\* a search at the full depth of the bound at the cap, answered with a
\* relocation although a later relocation has the same unpruned score
C37_Witness ==
    /\ result.fn = "minimax"
    /\ call.depth = MaxSearchDepth
    /\ call.aiMarks = 3
    /\ result.value[2] >= 10
    /\ \E p \in {q \in Cells \X Cells : call.board[q[1]] = "X" /\ call.board[q[2]] = Null} :
          /\ p[2] * 10 + p[1] # result.value[2]
          /\ plainMinimax([call.board EXCEPT ![p[1]] = Null, ![p[2]] = "X"],
                          call.depth - 1, FALSE, 3, call.playerMarks)[1] = result.value[1]

(***************************************************************************)
(* Claims about the agent endpoint                                         *)
(***************************************************************************)
\* C38: every request to the agent endpoint is answered, and every answer
\* has status 200 and a body {reply} whose reply is a non-empty text,
\* whatever the request holds and whatever the model invocations do
\* (resolve with any text, reject, or never settle before the timeout).
C38_AlwaysAnswers200 ==
    /\ [](result.fn = "agentPOST" =>
             /\ result.status = 200
             /\ DOMAIN result.body = {"reply"}
             /\ Len(result.body.reply) > 0)
    /\ <>(result.fn = "agentPOST")

\* the first model call was rejected and the fallback model resolved with an
\* empty text: the request is answered with the fixed text for an empty answer
C38_Witness ==
    /\ result.fn = "agentPOST"
    /\ call.request.body = "messages"
    /\ call.response = <<>>
    /\ result.body.reply = agentTexts.unanswered

\* C39: performGoogleSearch always completes with a non-empty result text
\* and never with an error; the text comes from Google when both keys are
\* set and the call answers in time, otherwise from SerpAPI when its key is
\* set and its call answers in time, otherwise it is the simulated result.
C39_SearchNeverThrows ==
    result.fn = "performGoogleSearch" =>
        LET env == call.env
            googleAnswers == env.googleKey /\ env.googleCseId /\ env.google \in {"items", "empty"}
            serpAnswers == env.serpKey /\ env.serp \in {"items", "empty"}
        IN /\ result.value.ok
           /\ Len(result.value.text) > 0
           /\ result.value.source = IF googleAnswers THEN "google"
                                    ELSE IF serpAnswers THEN "serpapi"
                                    ELSE "simulated"

====
